---------------------------- MODULE Spec2Model ----------------------------
(***************************************************************************)
(* Model of the Figma-to-Tailwind plugin (src/src/code.ts) and of the part *)
(* of its UI script that drives layer generation (src/unnamed/part_000).   *)
(*                                                                         *)
(* Text is modelled as a sequence of one-character strings, so that case   *)
(* folding, prefix tests, sanitising and suffixing are computed character  *)
(* by character as the code does; its characters are those a string of a   *)
(* module can hold, U+0000 to U+00FF.  JavaScript Maps are modelled as     *)
(* sequences of <<key, value>> pairs in insertion order, Sets as sets.     *)
(* The numbers of the colour functions are IEEE 754 binary64 numbers,      *)
(* computed with the rounding of every JavaScript operation; rem values    *)
(* are kept exact by scaling with RemUnit.                                 *)
(***************************************************************************)
EXTENDS Integers, Sequences, FiniteSets, TLC

(***************************************************************************)
(* Bounds of the model                                                     *)
(***************************************************************************)
\* number of register* calls explored on one TokenRegistry
MaxRegCalls == 3
\* number of toAssetFileName calls explored on one used-names set
MaxFileCalls == 4

(***************************************************************************)
(* Text helpers                                                            *)
(***************************************************************************)
UpperChars == <<"A","B","C","D","E","F","G","H","I","J","K","L","M",
                "N","O","P","Q","R","S","T","U","V","W","X","Y","Z">>
LowerChars == <<"a","b","c","d","e","f","g","h","i","j","k","l","m",
                "n","o","p","q","r","s","t","u","v","w","x","y","z">>
DigitChars == <<"0","1","2","3","4","5","6","7","8","9">>

Range(s) == {s[i] : i \in 1..Len(s)}

\* the element of a one-element set; The({e(v) : v \in {d}}) is e with v
\* bound to the value of d, as a const declaration binds it
The(S) == CHOOSE v \in S : TRUE

\* the cased letters above "z" that a string of this module can hold
\* (U+00C0 to U+00DE), and their lower-case forms
UpperLatin1 == <<"À","Á","Â","Ã","Ä","Å","Æ","Ç","È","É","Ê","Ë","Ì","Í",
                "Î","Ï","Ð","Ñ","Ò","Ó","Ô","Õ","Ö","Ø","Ù","Ú","Û","Ü",
                "Ý","Þ">>
LowerLatin1 == <<"à","á","â","ã","ä","å","æ","ç","è","é","ê","ë","ì","í",
                "î","ï","ð","ñ","ò","ó","ô","õ","ö","ø","ù","ú","û","ü",
                "ý","þ">>

\* String.prototype.toLowerCase, one character
ToLowerChar(c) ==
  IF \E i \in 1..Len(UpperChars) : UpperChars[i] = c
  THEN LowerChars[CHOOSE i \in 1..Len(UpperChars) : UpperChars[i] = c]
  ELSE IF \E i \in 1..Len(UpperLatin1) : UpperLatin1[i] = c
  THEN LowerLatin1[CHOOSE i \in 1..Len(UpperLatin1) : UpperLatin1[i] = c]
  ELSE c

\* String.prototype.toLowerCase
toLowerCase(s) == [i \in 1..Len(s) |-> ToLowerChar(s[i])]

\* s.slice(0, n) / s.substring(0, n)
Slice(s, n) == SubSeq(s, 1, IF Len(s) < n THEN Len(s) ELSE n)

\* String.prototype.startsWith
StartsWith(s, p) == Len(p) <= Len(s) /\ SubSeq(s, 1, Len(p)) = p

\* String(n) / template interpolation of a non-negative integer
RECURSIVE NumToStr(_)
NumToStr(n) ==
  IF n < 10 THEN <<DigitChars[n + 1]>>
  ELSE NumToStr(n \div 10) \o <<DigitChars[(n % 10) + 1]>>

\* value of one hexadecimal digit as parseInt(.., 16) reads it
HexDigitVal(c) ==
  The({ IF \E i \in 1..10 : DigitChars[i] = lc
        THEN (CHOOSE i \in 1..10 : DigitChars[i] = lc) - 1
        ELSE (CHOOSE i \in 1..6 : LowerChars[i] = lc) + 9 :
        lc \in {ToLowerChar(c)} })

\* hex.replace('#', '').substring(0, 6)
HexRaw(hex) ==
  LET noHash == IF \E i \in 1..Len(hex) : hex[i] = "#"
                THEN LET k == CHOOSE i \in 1..Len(hex) :
                                 hex[i] = "#" /\ \A j \in 1..(i - 1) : hex[j] # "#"
                     IN  SubSeq(hex, 1, k - 1) \o SubSeq(hex, k + 1, Len(hex))
                ELSE hex
  IN  Slice(noHash, 6)

\* parseInt(raw.substring(i, i + 2), 16), the channel as 0..255
HexChannel(hex, i) ==
  The({16 * HexDigitVal(raw[i]) + HexDigitVal(raw[i + 1]) : raw \in {HexRaw(hex)}})

\* <<r, g, b>> as 0..255
Channels(hex) == <<HexChannel(hex, 1), HexChannel(hex, 3), HexChannel(hex, 5)>>

Max3(a, b, c) == IF a >= b /\ a >= c THEN a ELSE IF b >= c THEN b ELSE c
Min3(a, b, c) == IF a <= b /\ a <= c THEN a ELSE IF b <= c THEN b ELSE c

(***************************************************************************)
(* Natural numbers of any size                                             *)
(***************************************************************************)
\* a natural number is the sequence of its digits to the base 2^BaseBits,
\* lowest first, without a zero top digit; zero is the empty sequence
BaseBits == 15

RECURSIVE Pow2(_)
Pow2(k) == IF k = 0 THEN 1 ELSE 2 * Pow2(k - 1)

Base == Pow2(BaseBits)

\* the number of binary digits of a digit
RECURSIVE SmallBits(_)
SmallBits(n) == IF n = 0 THEN 0 ELSE 1 + SmallBits(n \div 2)

\* the lowest digit of a number and the number of the digits above it
Low(a) == IF a = << >> THEN 0 ELSE a[1]
Above(a) == IF a = << >> THEN << >> ELSE Tail(a)

\* the operations on natural numbers.  They are the cases of one recursive
\* definition because each is computed from the others
RECURSIVE Big(_, _)
Big(op, x) ==
  CASE op = "norm" ->    \* x without zero top digits
         IF x # << >> /\ x[Len(x)] = 0 THEN Big("norm", SubSeq(x, 1, Len(x) - 1)) ELSE x
    [] op = "of" ->      \* the integer x as a number
         IF x = 0 THEN << >> ELSE <<x % Base>> \o Big("of", x \div Base)
    [] op = "int" ->     \* the number x as an integer
         IF x = << >> THEN 0 ELSE x[1] + Base * Big("int", Tail(x))
    [] op = "add" ->     \* x[1] + x[2] + x[3], x[3] a digit
         IF x[1] = << >> /\ x[2] = << >> THEN (IF x[3] = 0 THEN << >> ELSE <<x[3]>>)
         ELSE The({ <<s % Base>> \o Big("add", <<Above(x[1]), Above(x[2]), s \div Base>>) :
                    s \in {Low(x[1]) + Low(x[2]) + x[3]} })
    [] op = "sub" ->     \* x[1] - x[2] - x[3] >= 0, x[3] a digit; not normalised
         IF x[1] = << >> THEN << >>
         ELSE The({ <<(s + Base) % Base>>
                    \o Big("sub", <<Tail(x[1]), Above(x[2]), IF s < 0 THEN 1 ELSE 0>>) :
                    s \in {x[1][1] - Low(x[2]) - x[3]} })
    [] op = "less" ->    \* x[1] < x[2]
         \/ Len(x[1]) < Len(x[2])
         \/ /\ Len(x[1]) = Len(x[2])
            /\ \E i \in 1..Len(x[1]) : /\ x[1][i] < x[2][i]
                                       /\ \A j \in (i + 1)..Len(x[1]) : x[1][j] = x[2][j]
    [] op = "scale" ->   \* x[1] * x[2] + x[3], x[2] and x[3] digits; not normalised
         IF x[1] = << >> THEN (IF x[3] = 0 THEN << >> ELSE <<x[3]>>)
         ELSE The({ <<p % Base>> \o Big("scale", <<Tail(x[1]), x[2], p \div Base>>) :
                    p \in {x[1][1] * x[2] + x[3]} })
    [] op = "mul" ->     \* x[1] * x[2]
         IF x[1] = << >> \/ x[2] = << >> THEN << >>
         ELSE Big("add", <<Big("norm", Big("scale", <<x[1], x[2][1], 0>>)),
                           Big("norm", <<0>> \o Big("mul", <<x[1], Tail(x[2])>>)), 0>>)
    [] op = "shl" ->     \* x[1] * 2^x[2]
         IF x[1] = << >> THEN << >>
         ELSE [i \in 1..(x[2] \div BaseBits) |-> 0]
              \o Big("scale", <<x[1], Pow2(x[2] % BaseBits), 0>>)
    [] op = "half" ->    \* x \div 2
         Big("norm", [i \in 1..Len(x) |->
                        (x[i] \div 2) + (IF i < Len(x) THEN x[i + 1] % 2 ELSE 0) * (Base \div 2)])
    [] op = "bits" ->    \* the number of binary digits of x
         IF x = << >> THEN 0 ELSE BaseBits * (Len(x) - 1) + SmallBits(x[Len(x)])
    [] op = "digit" ->   \* the largest digit g >= x[4] with x[2] * g <= x[1], found
                         \* binary digit by binary digit from digit x[3] down
         IF x[3] < 0 THEN x[4]
         ELSE IF Big("less", <<x[1], Big("norm", Big("scale", <<x[2], x[4] + Pow2(x[3]), 0>>))>>)
         THEN Big("digit", <<x[1], x[2], x[3] - 1, x[4]>>)
         ELSE Big("digit", <<x[1], x[2], x[3] - 1, x[4] + Pow2(x[3])>>)
    [] op = "long" ->    \* long division of x[1] by x[2] from digit x[3] down, with
                         \* the quotient x[4] and the remainder x[5] so far
         IF x[3] = 0 THEN <<Big("norm", x[4]), x[5]>>
         ELSE The({ The({ Big("long", <<x[1], x[2], x[3] - 1, <<g>> \o x[4],
                                        Big("norm", Big("sub", <<r,
                                              Big("norm", Big("scale", <<x[2], g, 0>>)), 0>>))>>) :
                          g \in {Big("digit", <<r, x[2], BaseBits - 1, 0>>)} }) :
                    r \in {Big("norm", <<x[1][x[3]]>> \o x[5])} })
    [] op = "div" ->     \* <<x[1] \div x[2], x[1] % x[2]>>
         Big("long", <<x[1], x[2], Len(x[1]), << >>, << >>>>)

(***************************************************************************)
(* JavaScript Numbers (IEEE 754 binary64)                                  *)
(***************************************************************************)
\* a Number is (neg ? -1 : 1) * m * 2^e with m a natural number of MantBits
\* binary digits, or zero
MantBits == 53
Zero == [neg |-> FALSE, m |-> << >>, e |-> 0]

\* n / d with one of the two multiplied by a power of two so that the
\* quotient has MantBits or MantBits + 1 binary digits: <<n, d, power>>
Scaled(n, d) ==
  The({ IF k >= 0 THEN <<Big("shl", <<n, k>>), d, k>> ELSE <<n, Big("shl", <<d, 0 - k>>), k>> :
        k \in {MantBits - (Big("bits", n) - Big("bits", d))} })

\* quotient q and remainder r of a division by d, rounded to MantBits binary
\* digits, ties to the even mantissa: <<mantissa, change of the exponent>>
RoundQuotient(q, r, d) ==
  The({ The({ IF Big("bits", m) > MantBits THEN <<Big("half", m), w[2] + 1>> ELSE <<m, w[2]>> :
              m \in { IF IF w[2] = 1
                         THEN q[1] % 2 = 1 /\ (r # << >> \/ w[1][1] % 2 = 1)
                         ELSE The({ Big("less", <<d, rr>>) \/ (rr = d /\ w[1][1] % 2 = 1) :
                                    rr \in {Big("add", <<r, r, 0>>)} })
                      THEN Big("add", <<w[1], <<1>>, 0>>)
                      ELSE w[1] } }) :
        w \in { IF Big("bits", q) > MantBits THEN <<Big("half", q), 1>> ELSE <<q, 0>> } })

\* the Number nearest to (n / d) * 2^e; n, d > 0
RoundNearest(neg, n, d, e) ==
  The({ The({ The({ [neg |-> neg, m |-> me[1], e |-> e - s[3] + me[2]] :
                    me \in {RoundQuotient(qr[1], qr[2], s[2])} }) :
              qr \in {Big("div", <<s[1], s[2]>>)} }) :
        s \in {Scaled(n, d)} })

\* the exact result of a op b as <<neg, n, d, e>>, that is (n / d) * 2^e with
\* its sign; n is zero when the result is
Exact(op, a, b) ==
  CASE op = "*" ->
         IF a.m = << >> \/ b.m = << >> THEN <<FALSE, << >>, <<1>>, 0>>
         ELSE <<a.neg # b.neg, Big("mul", <<a.m, b.m>>), <<1>>, a.e + b.e>>
    [] op = "/" -> <<a.neg # b.neg, a.m, b.m, a.e - b.e>>
    [] op \in {"+", "-"} ->
         The({ The({ IF a.neg = bneg THEN <<a.neg, Big("add", <<ab[1], ab[2], 0>>), <<1>>, e>>
                     ELSE IF ab[1] = ab[2] THEN <<FALSE, << >>, <<1>>, 0>>
                     ELSE IF Big("less", <<ab[1], ab[2]>>)
                     THEN <<bneg, Big("norm", Big("sub", <<ab[2], ab[1], 0>>)), <<1>>, e>>
                     ELSE <<a.neg, Big("norm", Big("sub", <<ab[1], ab[2], 0>>)), <<1>>, e>> :
                     ab \in {<<Big("shl", <<a.m, a.e - e>>), Big("shl", <<b.m, b.e - e>>)>>},
                     bneg \in {IF op = "-" THEN ~b.neg ELSE b.neg} }) :
               e \in { IF a.m = << >> THEN b.e
                       ELSE IF b.m = << >> \/ a.e < b.e THEN a.e ELSE b.e } })

\* the literal p / q of a decimal or an integer p / 1, as an expression
Literal(p, q) == <<"lit", p, q>>

\* the value of an expression of Numbers: <<"lit", p, q>>, <<"num", x>> for
\* the Number x, or <<op, left, right>> with op one of + - * /.  Every
\* operation is rounded to the nearest Number
RECURSIVE JsNumber(_)
JsNumber(expr) ==
  IF expr[1] = "num" THEN expr[2]
  ELSE The({ IF ex[2] = << >> THEN Zero ELSE RoundNearest(ex[1], ex[2], ex[3], ex[4]) :
             ex \in { IF expr[1] = "lit"
                      THEN <<FALSE, Big("of", expr[2]), Big("of", expr[3]), 0>>
                      ELSE Exact(expr[1], JsNumber(expr[2]), JsNumber(expr[3])) } })

\* x < y; mantissas have MantBits binary digits, so that of two Numbers of
\* one sign the one of the greater exponent is the greater in magnitude
DLess(x, y) ==
  IF x.m = << >> THEN y.m # << >> /\ ~y.neg
  ELSE IF y.m = << >> THEN x.neg
  ELSE IF x.neg # y.neg THEN x.neg
  ELSE IF x.neg THEN y.e < x.e \/ (y.e = x.e /\ Big("less", <<y.m, x.m>>))
  ELSE x.e < y.e \/ (x.e = y.e /\ Big("less", <<x.m, y.m>>))

\* Math.round(x) as an integer: floor(x + 1/2)
MathRound(x) ==
  IF x.m = << >> THEN 0
  ELSE IF x.e >= 0 THEN (IF x.neg THEN -1 ELSE 1) * Big("int", Big("shl", <<x.m, x.e>>))
  ELSE The({ IF ~x.neg THEN Big("int", Big("div", <<Big("add", <<x.m, ho[1], 0>>), ho[2]>>)[1])
             ELSE IF ~Big("less", <<ho[1], x.m>>) THEN 0
             ELSE 0 - Big("int", Big("div", <<Big("add", <<Big("norm", Big("sub", <<x.m, ho[1], 0>>)),
                                                          Big("norm", Big("sub", <<ho[2], <<1>>, 0>>)), 0>>),
                                             ho[2]>>)[1]) :
             ho \in {<<Big("shl", <<<<1>>, 0 - x.e - 1>>), Big("shl", <<<<1>>, 0 - x.e>>)>>} })

(***************************************************************************)
(* Colour geometry                                                         *)
(***************************************************************************)
\* parseInt(...) / 255, as an expression
Channel255(n) == <<"/", Literal(n, 1), Literal(255, 1)>>

\* the literals the colour functions compare with
Lit_0_08 == JsNumber(Literal(8, 100))
Lit_0_1 == JsNumber(Literal(1, 10))
Lit_0_15 == JsNumber(Literal(15, 100))
Lit_0_2 == JsNumber(Literal(2, 10))
Lit_0_25 == JsNumber(Literal(25, 100))
Lit_0_3 == JsNumber(Literal(3, 10))
Lit_0_4 == JsNumber(Literal(4, 10))
Lit_0_85 == JsNumber(Literal(85, 100))
Lit_0_9 == JsNumber(Literal(9, 10))

\* 0.2126 * r + 0.7152 * g + 0.0722 * b of the channels c = <<r, g, b>>
Luminance(c) ==
  JsNumber(<<"+", <<"+", <<"*", Literal(2126, 10000), Channel255(c[1])>>,
                         <<"*", Literal(7152, 10000), Channel255(c[2])>>>>,
                  <<"*", Literal(722, 10000), Channel255(c[3])>>>>)

\* max === 0 ? 0 : (max - min) / max
Saturation(c) ==
  The({ IF mm[1] = 0 THEN Zero
        ELSE JsNumber(<<"/", <<"-", Channel255(mm[1]), Channel255(mm[2])>>, Channel255(mm[1])>>) :
        mm \in {<<Max3(c[1], c[2], c[3]), Min3(c[1], c[2], c[3])>>} })

\* h before Math.round(h * 60), as an expression, for d = max - min > 0; the
\* quotient lies in -1..1, so that % 6 leaves it as it is
HueAngle(r, g, b, mx, d) ==
  IF mx = r THEN <<"/", <<"-", Channel255(g), Channel255(b)>>, d>>
  ELSE IF mx = g THEN <<"+", <<"/", <<"-", Channel255(b), Channel255(r)>>, d>>, Literal(2, 1)>>
  ELSE <<"+", <<"/", <<"-", Channel255(r), Channel255(g)>>, d>>, Literal(4, 1)>>

\* hue in degrees, 0..360
Hue(c) ==
  The({ IF mm[1] = mm[2] THEN 0
        ELSE The({ IF h < 0 THEN h + 360 ELSE h :
                   h \in {MathRound(JsNumber(
                            <<"*", HueAngle(c[1], c[2], c[3], mm[1],
                                            <<"-", Channel255(mm[1]), Channel255(mm[2])>>),
                                   Literal(60, 1)>>))} }) :
        mm \in {<<Max3(c[1], c[2], c[3]), Min3(c[1], c[2], c[3])>>} })

\* Math.round(n * 255).toString(16), padded to two digits, of the Number n
ToHex(n) ==
  The({ <<(DigitChars \o LowerChars)[(v \div 16) + 1],
          (DigitChars \o LowerChars)[(v % 16) + 1]>> :
        v \in {MathRound(JsNumber(<<"*", <<"num", n>>, Literal(255, 1)>>))} })

\* the channels r, g, b and the opacity a are Numbers from 0 to 1
rgbaToHex(r, g, b, a) ==
  IF DLess(a, JsNumber(Literal(1, 1)))
  THEN <<"#">> \o ToHex(r) \o ToHex(g) \o ToHex(b) \o ToHex(a)
  ELSE <<"#">> \o ToHex(r) \o ToHex(g) \o ToHex(b)

\* the channels of the colours the specifications draw their inputs from
MeasuredChannels ==
  { <<34, 34, 34>>, <<221, 221, 221>>, <<68, 68, 68>>, <<16, 64, 192>>,
    <<102, 102, 102>>, <<128, 128, 128>>, <<204, 32, 32>>, <<153, 153, 153>>,
    <<80, 128, 255>>, <<187, 187, 187>>, <<32, 80, 208>>, <<48, 96, 224>>,
    <<64, 112, 240>>, <<59, 130, 246>>, <<255, 0, 0>>, <<255, 255, 255>>,
    <<0, 0, 0>> }

\* hue, saturation and luminance of the channels c
Measures(c) == [hue |-> Hue(c), saturation |-> Saturation(c), luminance |-> Luminance(c)]

\* the measures of the colours of the specifications, computed once
Measured == [c \in MeasuredChannels |-> Measures(c)]

Measure(hex) ==
  The({ IF c \in MeasuredChannels THEN Measured[c] ELSE Measures(c) : c \in {Channels(hex)} })

hexLuminance(hex) == Measure(hex).luminance

hexSaturation(hex) == Measure(hex).saturation

hexHue(hex) == Measure(hex).hue

hueToColorName(hue, saturation, luminance) ==
  IF DLess(saturation, Lit_0_08)
  THEN IF DLess(Lit_0_9, luminance) THEN <<"w","h","i","t","e">>
       ELSE IF DLess(luminance, Lit_0_1) THEN <<"b","l","a","c","k">>
       ELSE <<"g","r","a","y">>
  ELSE IF hue < 15 THEN <<"r","e","d">>
  ELSE IF hue < 45 THEN <<"o","r","a","n","g","e">>
  ELSE IF hue < 70 THEN <<"y","e","l","l","o","w">>
  ELSE IF hue < 160 THEN <<"g","r","e","e","n">>
  ELSE IF hue < 200 THEN <<"t","e","a","l">>
  ELSE IF hue < 260 THEN <<"b","l","u","e">>
  ELSE IF hue < 290 THEN <<"p","u","r","p","l","e">>
  ELSE IF hue < 340 THEN <<"p","i","n","k">>
  ELSE <<"r","e","d">>

\* hueToColorName(hexHue(hex), hexSaturation(hex), hexLuminance(hex))
ColorFamily(hex) ==
  The({ hueToColorName(a[1], a[2], a[3]) :
        a \in {<<hexHue(hex), hexSaturation(hex), hexLuminance(hex)>>} })

(***************************************************************************)
(* Insertion-ordered maps                                                  *)
(***************************************************************************)
MapHas(m, k) == \E i \in 1..Len(m) : m[i][1] = k
MapGet(m, k) == m[CHOOSE i \in 1..Len(m) : m[i][1] = k][2]
MapSet(m, k, v) ==
  IF MapHas(m, k)
  THEN [i \in 1..Len(m) |-> IF m[i][1] = k THEN <<k, v>> ELSE m[i]]
  ELSE Append(m, <<k, v>>)
MapKeys(m) == [i \in 1..Len(m) |-> m[i][1]]
MapValues(m) == [i \in 1..Len(m) |-> m[i][2]]

(***************************************************************************)
(* Canonical scales                                                        *)
(***************************************************************************)
\* units per rem: 16 px per rem, 1000 units per px
RemUnit == 16000

TW_TEXT_SCALE ==
  << [name |-> <<"x","s">>,         rem |-> 12000],
     [name |-> <<"s","m">>,         rem |-> 14000],
     [name |-> <<"b","a","s","e">>, rem |-> 16000],
     [name |-> <<"l","g">>,         rem |-> 18000],
     [name |-> <<"x","l">>,         rem |-> 20000],
     [name |-> <<"2","x","l">>,     rem |-> 24000],
     [name |-> <<"3","x","l">>,     rem |-> 30000],
     [name |-> <<"4","x","l">>,     rem |-> 36000],
     [name |-> <<"5","x","l">>,     rem |-> 48000],
     [name |-> <<"6","x","l">>,     rem |-> 60000],
     [name |-> <<"7","x","l">>,     rem |-> 72000],
     [name |-> <<"8","x","l">>,     rem |-> 96000],
     [name |-> <<"9","x","l">>,     rem |-> 128000] >>

TW_RADIUS_SCALE ==
  << [name |-> <<"x","s">>,         px |-> 2],
     [name |-> <<"s","m">>,         px |-> 4],
     [name |-> <<"m","d">>,         px |-> 6],
     [name |-> <<"l","g">>,         px |-> 8],
     [name |-> <<"x","l">>,         px |-> 12],
     [name |-> <<"2","x","l">>,     px |-> 16],
     [name |-> <<"3","x","l">>,     px |-> 24],
     [name |-> <<"f","u","l","l">>, px |-> 9999] >>

Abs(x) == IF x < 0 THEN 0 - x ELSE x

\* px -> class value, in the key order Object.entries enumerates
TW_SPACING_MAP ==
    << 
       <<0, <<"0">>>>,
       <<1, <<"p","x">>>>,
       <<2, <<"0",".","5">>>>,
       <<4, <<"1">>>>,
       <<6, <<"1",".","5">>>>,
       <<8, <<"2">>>>,
       <<10, <<"2",".","5">>>>,
       <<12, <<"3">>>>,
       <<14, <<"3",".","5">>>>,
       <<16, <<"4">>>>,
       <<20, <<"5">>>>,
       <<24, <<"6">>>>,
       <<28, <<"7">>>>,
       <<32, <<"8">>>>,
       <<36, <<"9">>>>,
       <<40, <<"1","0">>>>,
       <<44, <<"1","1">>>>,
       <<48, <<"1","2">>>>,
       <<56, <<"1","4">>>>,
       <<64, <<"1","6">>>>,
       <<80, <<"2","0">>>>,
       <<96, <<"2","4">>>>,
       <<112, <<"2","8">>>>,
       <<128, <<"3","2">>>>,
       <<144, <<"3","6">>>>,
       <<160, <<"4","0">>>>,
       <<176, <<"4","4">>>>,
       <<192, <<"4","8">>>>,
       <<208, <<"5","2">>>>,
       <<224, <<"5","6">>>>,
       <<240, <<"6","0">>>>,
       <<256, <<"6","4">>>>,
       <<288, <<"7","2">>>>,
       <<320, <<"8","0">>>>,
       <<384, <<"9","6">>>> >>

\* Tailwind default colour palette
TW_COLORS ==
    << 
       <<<<"#","0","0","0","0","0","0">>, <<"b","l","a","c","k">>>>,
       <<<<"#","f","f","f","f","f","f">>, <<"w","h","i","t","e">>>>,
       <<<<"#","f","8","f","a","f","c">>, <<"s","l","a","t","e","-","5","0">>>>,
       <<<<"#","f","1","f","5","f","9">>, <<"s","l","a","t","e","-","1","0","0">>>>,
       <<<<"#","e","2","e","8","f","0">>, <<"s","l","a","t","e","-","2","0","0">>>>,
       <<<<"#","c","b","d","5","e","1">>, <<"s","l","a","t","e","-","3","0","0">>>>,
       <<<<"#","9","4","a","3","b","8">>, <<"s","l","a","t","e","-","4","0","0">>>>,
       <<<<"#","6","4","7","4","8","b">>, <<"s","l","a","t","e","-","5","0","0">>>>,
       <<<<"#","4","7","5","5","6","9">>, <<"s","l","a","t","e","-","6","0","0">>>>,
       <<<<"#","3","3","4","1","5","5">>, <<"s","l","a","t","e","-","7","0","0">>>>,
       <<<<"#","1","e","2","9","3","b">>, <<"s","l","a","t","e","-","8","0","0">>>>,
       <<<<"#","0","f","1","7","2","a">>, <<"s","l","a","t","e","-","9","0","0">>>>,
       <<<<"#","0","2","0","6","1","7">>, <<"s","l","a","t","e","-","9","5","0">>>>,
       <<<<"#","f","e","f","2","f","2">>, <<"r","e","d","-","5","0">>>>,
       <<<<"#","f","e","e","2","e","2">>, <<"r","e","d","-","1","0","0">>>>,
       <<<<"#","f","e","c","a","c","a">>, <<"r","e","d","-","2","0","0">>>>,
       <<<<"#","f","c","a","5","a","5">>, <<"r","e","d","-","3","0","0">>>>,
       <<<<"#","f","8","7","1","7","1">>, <<"r","e","d","-","4","0","0">>>>,
       <<<<"#","e","f","4","4","4","4">>, <<"r","e","d","-","5","0","0">>>>,
       <<<<"#","d","c","2","6","2","6">>, <<"r","e","d","-","6","0","0">>>>,
       <<<<"#","b","9","1","c","1","c">>, <<"r","e","d","-","7","0","0">>>>,
       <<<<"#","9","9","1","b","1","b">>, <<"r","e","d","-","8","0","0">>>>,
       <<<<"#","7","f","1","d","1","d">>, <<"r","e","d","-","9","0","0">>>>,
       <<<<"#","e","f","f","6","f","f">>, <<"b","l","u","e","-","5","0">>>>,
       <<<<"#","d","b","e","a","f","e">>, <<"b","l","u","e","-","1","0","0">>>>,
       <<<<"#","b","f","d","b","f","e">>, <<"b","l","u","e","-","2","0","0">>>>,
       <<<<"#","9","3","c","5","f","d">>, <<"b","l","u","e","-","3","0","0">>>>,
       <<<<"#","6","0","a","5","f","a">>, <<"b","l","u","e","-","4","0","0">>>>,
       <<<<"#","3","b","8","2","f","6">>, <<"b","l","u","e","-","5","0","0">>>>,
       <<<<"#","2","5","6","3","e","b">>, <<"b","l","u","e","-","6","0","0">>>>,
       <<<<"#","1","d","4","e","d","8">>, <<"b","l","u","e","-","7","0","0">>>>,
       <<<<"#","1","e","4","0","a","f">>, <<"b","l","u","e","-","8","0","0">>>>,
       <<<<"#","1","e","3","a","8","a">>, <<"b","l","u","e","-","9","0","0">>>>,
       <<<<"#","f","0","f","d","f","4">>, <<"g","r","e","e","n","-","5","0">>>>,
       <<<<"#","d","c","f","c","e","7">>, <<"g","r","e","e","n","-","1","0","0">>>>,
       <<<<"#","b","b","f","7","d","0">>, <<"g","r","e","e","n","-","2","0","0">>>>,
       <<<<"#","8","6","e","f","a","c">>, <<"g","r","e","e","n","-","3","0","0">>>>,
       <<<<"#","4","a","d","e","8","0">>, <<"g","r","e","e","n","-","4","0","0">>>>,
       <<<<"#","2","2","c","5","5","e">>, <<"g","r","e","e","n","-","5","0","0">>>>,
       <<<<"#","1","6","a","3","4","a">>, <<"g","r","e","e","n","-","6","0","0">>>>,
       <<<<"#","1","5","8","0","3","d">>, <<"g","r","e","e","n","-","7","0","0">>>>,
       <<<<"#","1","6","6","5","3","4">>, <<"g","r","e","e","n","-","8","0","0">>>>,
       <<<<"#","1","4","5","3","2","d">>, <<"g","r","e","e","n","-","9","0","0">>>>,
       <<<<"#","f","e","f","c","e","8">>, <<"y","e","l","l","o","w","-","5","0">>>>,
       <<<<"#","f","e","f","9","c","3">>, <<"y","e","l","l","o","w","-","1","0","0">>>>,
       <<<<"#","f","e","f","0","8","a">>, <<"y","e","l","l","o","w","-","2","0","0">>>>,
       <<<<"#","f","d","e","0","4","7">>, <<"y","e","l","l","o","w","-","3","0","0">>>>,
       <<<<"#","f","a","c","c","1","5">>, <<"y","e","l","l","o","w","-","4","0","0">>>>,
       <<<<"#","e","a","b","3","0","8">>, <<"y","e","l","l","o","w","-","5","0","0">>>>,
       <<<<"#","c","a","8","a","0","4">>, <<"y","e","l","l","o","w","-","6","0","0">>>>,
       <<<<"#","a","1","6","2","0","7">>, <<"y","e","l","l","o","w","-","7","0","0">>>>,
       <<<<"#","8","5","4","d","0","e">>, <<"y","e","l","l","o","w","-","8","0","0">>>>,
       <<<<"#","7","1","3","f","1","2">>, <<"y","e","l","l","o","w","-","9","0","0">>>>,
       <<<<"#","f","5","f","3","f","f">>, <<"v","i","o","l","e","t","-","5","0">>>>,
       <<<<"#","e","d","e","9","f","e">>, <<"v","i","o","l","e","t","-","1","0","0">>>>,
       <<<<"#","d","d","d","6","f","e">>, <<"v","i","o","l","e","t","-","2","0","0">>>>,
       <<<<"#","c","4","b","5","f","d">>, <<"v","i","o","l","e","t","-","3","0","0">>>>,
       <<<<"#","a","7","8","b","f","a">>, <<"v","i","o","l","e","t","-","4","0","0">>>>,
       <<<<"#","8","b","5","c","f","6">>, <<"v","i","o","l","e","t","-","5","0","0">>>>,
       <<<<"#","7","c","3","a","e","d">>, <<"v","i","o","l","e","t","-","6","0","0">>>>,
       <<<<"#","6","d","2","8","d","9">>, <<"v","i","o","l","e","t","-","7","0","0">>>>,
       <<<<"#","5","b","2","1","b","6">>, <<"v","i","o","l","e","t","-","8","0","0">>>>,
       <<<<"#","4","c","1","d","9","5">>, <<"v","i","o","l","e","t","-","9","0","0">>>> >>

pxToTailwindSpacing(px) ==
  IF px = 0 THEN <<"0">>
  ELSE IF MapHas(TW_SPACING_MAP, px) THEN MapGet(TW_SPACING_MAP, px)
  ELSE IF \E i \in 1..Len(TW_SPACING_MAP) : Abs(TW_SPACING_MAP[i][1] - px) <= 1
  THEN TW_SPACING_MAP[CHOOSE i \in 1..Len(TW_SPACING_MAP) :
                        /\ Abs(TW_SPACING_MAP[i][1] - px) <= 1
                        /\ \A j \in 1..(i - 1) : Abs(TW_SPACING_MAP[j][1] - px) > 1][2]
  ELSE <<"[">> \o NumToStr(px) \o <<"p","x","]">>

(***************************************************************************)
(* Token registry                                                          *)
(***************************************************************************)
createTokenRegistry ==
  [colors |-> << >>, fontSizes |-> << >>, spacing |-> << >>,
   radii |-> << >>, shadows |-> << >>, gradients |-> << >>]

\* registerColor called without its optional colour map
NoExtractedColors == << >>

\* mutant of ColorKey: the lookup key keeps the spelling of the argument
ColorKey_NoFold(hex) == hex

\* the key a colour is stored under
ColorKey(hex) == toLowerCase(hex)

\* Array.prototype.filter(...).length over the names held by a map
CountStartingWith(names, p) ==
  Cardinality({i \in 1..Len(names) : StartsWith(names[i], p)})

\* returns [name, registry]; extractedColors is a map, empty when not passed
registerColor(registry, hex, extractedColors) ==
  LET lower == ColorKey(hex)
  IN  IF MapHas(registry.colors, lower)
      THEN [name |-> MapGet(registry.colors, lower), registry |-> registry]
      ELSE IF MapHas(extractedColors, lower)
      THEN [name |-> MapGet(extractedColors, lower),
            registry |-> [registry EXCEPT
                            !.colors = MapSet(@, lower, MapGet(extractedColors, lower))]]
      ELSE IF MapHas(TW_COLORS, lower)
      THEN [name |-> MapGet(TW_COLORS, lower),
            registry |-> [registry EXCEPT
                            !.colors = MapSet(@, lower, MapGet(TW_COLORS, lower))]]
      ELSE The({ [name |-> name,
                  registry |-> [registry EXCEPT !.colors = MapSet(@, lower, name)]] :
                 name \in { fe[1] \o <<"-">> \o
                              NumToStr(IF fe[2] = 0 THEN 500 ELSE (fe[2] + 1) * 100) :
                            fe \in { <<family, CountStartingWith(MapValues(registry.colors),
                                                                 family)>> :
                                     family \in {ColorFamily(lower)} } } })

\* mutant of ReduceClosest: on equal distance the last index wins
ReduceClosest_Last(dist) ==
  CHOOSE i \in 1..Len(dist) : /\ \A j \in 1..Len(dist) : dist[i] <= dist[j]
                              /\ \A j \in (i + 1)..Len(dist) : dist[j] > dist[i]

\* scale.reduce((best, s) => dist(s) < dist(best) ? s : best): the first
\* entry of least distance; dist is the sequence of the entries' distances
ReduceClosest(dist) ==
  CHOOSE i \in 1..Len(dist) : /\ \A j \in 1..Len(dist) : dist[i] <= dist[j]
                              /\ \A j \in 1..(i - 1) : dist[j] > dist[i]

registerFontSize(registry, px) ==
  IF MapHas(registry.fontSizes, px)
  THEN [name |-> MapGet(registry.fontSizes, px), registry |-> registry]
  ELSE LET dist == [i \in 1..Len(TW_TEXT_SCALE) |-> Abs(TW_TEXT_SCALE[i].rem - px * 1000)]
           closest == TW_TEXT_SCALE[ReduceClosest(dist)]
           usedNames == Range(MapValues(registry.fontSizes))
           name == IF closest.name \in usedNames
                   THEN closest.name \o <<"-">> \o NumToStr(px)
                   ELSE closest.name
       IN  [name |-> name,
            registry |-> [registry EXCEPT !.fontSizes = MapSet(@, px, name)]]

registerSpacing(registry, px) ==
  IF MapHas(registry.spacing, px)
  THEN [name |-> MapGet(registry.spacing, px), registry |-> registry]
  ELSE LET twName == pxToTailwindSpacing(px)
           name == IF ~StartsWith(twName, <<"[">>) THEN twName ELSE NumToStr(px)
       IN  [name |-> name,
            registry |-> [registry EXCEPT !.spacing = MapSet(@, px, name)]]

\* TW_RADIUS_SCALE.filter(s => s.name !== 'full')
RadiusScaleNoFull == SelectSeq(TW_RADIUS_SCALE, LAMBDA s : s.name # <<"f","u","l","l">>)

registerRadius(registry, px) ==
  IF MapHas(registry.radii, px)
  THEN [name |-> MapGet(registry.radii, px), registry |-> registry]
  ELSE IF px >= 500
  THEN [name |-> <<"f","u","l","l">>,
        registry |-> [registry EXCEPT !.radii = MapSet(@, px, <<"f","u","l","l">>)]]
  ELSE LET dist == [i \in 1..Len(RadiusScaleNoFull) |-> Abs(RadiusScaleNoFull[i].px - px)]
           closest == RadiusScaleNoFull[ReduceClosest(dist)]
           usedNames == Range(MapValues(registry.radii))
           name == IF closest.name \in usedNames
                   THEN closest.name \o <<"-">> \o NumToStr(px)
                   ELSE closest.name
       IN  [name |-> name,
            registry |-> [registry EXCEPT !.radii = MapSet(@, px, name)]]

(***************************************************************************)
(* Colour classifier                                                       *)
(***************************************************************************)
\* the sort functions handed to pick: sortFn(a, b) < 0
SortsBefore(sortFn, a, b) ==
  CASE sortFn = "lumDesc" -> DLess(hexLuminance(b.hex), hexLuminance(a.hex))
    [] sortFn = "lumAsc" -> DLess(hexLuminance(a.hex), hexLuminance(b.hex))
    [] sortFn = "countDesc" -> b.count < a.count
    [] OTHER -> FALSE

\* list.filter(unassigned), optional stable sort, first element; the result
\* is a sequence of zero or one colour
pick(list, assigned, sortFn) ==
  The({ IF candidates = << >> THEN << >>
        ELSE << candidates[CHOOSE i \in 1..Len(candidates) :
                  /\ \A j \in 1..Len(candidates) :
                       ~SortsBefore(sortFn, candidates[j], candidates[i])
                  /\ \A j \in 1..(i - 1) :
                       SortsBefore(sortFn, candidates[i], candidates[j])] >> :
        candidates \in {SelectSeq(list, LAMBDA c : c.hex \notin assigned)} })

\* if (c) { semantic.push({ name, hex: c.hex }); assigned.add(c.hex); }
Assign(st, name, picked) ==
  IF picked = << >> THEN st
  ELSE [assigned |-> st.assigned \cup {picked[1].hex},
        semantic |-> Append(st.semantic, [name |-> name, hex |-> picked[1].hex])]

\* the shade ramp
ShadeSteps == <<50, 100, 200, 300, 400, 500, 600, 700, 800, 900>>

\* steps.filter((_, i) => i % Math.ceil(steps.length / n) === 0).slice(0, n),
\* or all the steps when n exceeds their number
pickSteps(n) ==
  IF n <= Len(ShadeSteps)
  THEN LET every == (Len(ShadeSteps) + n - 1) \div n
           kept == SelectSeq([i \in 1..Len(ShadeSteps) |-> i],
                             LAMBDA i : (i - 1) % every = 0)
       IN  [k \in 1..(IF Len(kept) < n THEN Len(kept) ELSE n) |-> ShadeSteps[kept[k]]]
  ELSE ShadeSteps

\* shades.sort((a, b) => b.luminance - a.luminance), stable
SortByLumDesc(shades) ==
  LET n == Len(shades)
      Before(i, j) == \/ DLess(shades[j].luminance, shades[i].luminance)
                      \/ shades[i].luminance = shades[j].luminance /\ i < j
      Rank(i) == 1 + Cardinality({j \in 1..n : Before(j, i)})
  IN  [k \in 1..n |-> shades[CHOOSE i \in 1..n : Rank(i) = k]]

\* the palette entries of one hue family
FamilyPalette(family, shades) ==
  The({ IF Len(sorted) = 1
        THEN << [name |-> family \o <<"-","5","0","0">>, hex |-> sorted[1].hex] >>
        ELSE The({ [i \in 1..(IF Len(sorted) < Len(steps) THEN Len(sorted) ELSE Len(steps))
                      |-> [name |-> family \o <<"-">> \o NumToStr(steps[i]),
                           hex |-> sorted[i].hex]] :
                   steps \in {pickSteps(Len(sorted))} }) :
        sorted \in {SortByLumDesc(shades)} })

RECURSIVE ConcatAll(_)
ConcatAll(ss) == IF ss = << >> THEN << >> ELSE Head(ss) \o ConcatAll(Tail(ss))

\* the family of every leftover colour, in order
FamiliesOf(remaining) == [i \in 1..Len(remaining) |-> ColorFamily(remaining[i].hex)]

\* the keys of the Map grouped in insertion order, as the position of the
\* first colour of each family
FirstUses(fam) ==
  SelectSeq([i \in 1..Len(fam) |-> i], LAMBDA i : \A j \in 1..(i - 1) : fam[j] # fam[i])

\* grouped.get(f): the colours of family f in order, with their luminance
ShadesOf(remaining, fam, f) ==
  The({ [k \in 1..Len(idx) |-> [hex |-> remaining[idx[k]].hex,
                                luminance |-> hexLuminance(remaining[idx[k]].hex)]] :
        idx \in {SelectSeq([i \in 1..Len(fam) |-> i], LAMBDA i : fam[i] = f)} })

\* leftover colours grouped by hue family, families in order of first use
PaletteOf(remaining) ==
  The({ The({ ConcatAll([k \in 1..Len(firsts) |->
                           The({ FamilyPalette(fam[firsts[k]], shades) :
                                 shades \in {ShadesOf(remaining, fam, fam[firsts[k]])} })]) :
              firsts \in {FirstUses(fam)} }) :
        fam \in {FamiliesOf(remaining)} })

\* the nine role rules in their fixed order: the list a rule picks from, the
\* filter on it and the sort function
ClassifyRules ==
  << [name |-> <<"b","a","c","k","g","r","o","u","n","d">>,
      from |-> "fill", cond |-> "any", sortFn |-> "lumDesc"],
     [name |-> <<"f","o","r","e","g","r","o","u","n","d">>,
      from |-> "text", cond |-> "any", sortFn |-> "lumAsc"],
     [name |-> <<"p","r","i","m","a","r","y">>,
      from |-> "all", cond |-> "sat30", sortFn |-> "countDesc"],
     [name |-> <<"b","o","r","d","e","r">>,
      from |-> "stroke", cond |-> "any", sortFn |-> "countDesc"],
     [name |-> <<"m","u","t","e","d">>,
      from |-> "fill", cond |-> "lightLowSat", sortFn |-> "none"],
     [name |-> <<"m","u","t","e","d","-","f","o","r","e","g","r","o","u","n","d">>,
      from |-> "text", cond |-> "lum40", sortFn |-> "countDesc"],
     [name |-> <<"s","e","c","o","n","d","a","r","y">>,
      from |-> "all", cond |-> "sat25", sortFn |-> "countDesc"],
     [name |-> <<"d","e","s","t","r","u","c","t","i","v","e">>,
      from |-> "all", cond |-> "red", sortFn |-> "countDesc"],
     [name |-> <<"a","c","c","e","n","t">>,
      from |-> "all", cond |-> "sat20", sortFn |-> "countDesc"] >>

\* the filter of a rule on one colour
RuleCond(cond, c) ==
  CASE cond = "sat30" -> DLess(Lit_0_3, hexSaturation(c.hex))
    [] cond = "sat25" -> DLess(Lit_0_25, hexSaturation(c.hex))
    [] cond = "sat20" -> DLess(Lit_0_2, hexSaturation(c.hex))
    [] cond = "lightLowSat" -> /\ DLess(Lit_0_85, hexLuminance(c.hex))
                               /\ DLess(hexSaturation(c.hex), Lit_0_15)
    [] cond = "lum40" -> DLess(Lit_0_4, hexLuminance(c.hex))
    [] cond = "red" -> /\ hexHue(c.hex) < 20 \/ hexHue(c.hex) > 340
                       /\ DLess(Lit_0_3, hexSaturation(c.hex))
    [] OTHER -> TRUE

\* the list a rule picks from: fillColors, textColors, strokeColors or
\* colors, filtered
RuleList(colors, rule) ==
  SelectSeq(colors, LAMBDA c : /\ rule.from = "all" \/ rule.from \in c.usedAs
                               /\ RuleCond(rule.cond, c))

\* rules k, k + 1, ... applied in order to the state [assigned, semantic]
RECURSIVE ApplyRules(_, _, _)
ApplyRules(colors, k, st) ==
  IF k > Len(ClassifyRules) THEN st
  ELSE The({ ApplyRules(colors, k + 1, Assign(st, rule.name, picked)) :
             rule \in {ClassifyRules[k]},
             picked \in {pick(RuleList(colors, ClassifyRules[k]), st.assigned,
                              ClassifyRules[k].sortFn)} })

\* colors: sequence of [hex, count, usedAs]; returns [semantic, palette]
classifyColorsForTailwind(colors) ==
  IF Len(colors) = 0 THEN [semantic |-> << >>, palette |-> << >>]
  ELSE The({ [semantic |-> st.semantic,
              palette |-> The({ PaletteOf(remaining) :
                                remaining \in {SelectSeq(colors,
                                                 LAMBDA c : c.hex \notin st.assigned)} })] :
             st \in {ApplyRules(colors, 1, [assigned |-> {}, semantic |-> << >>])} })

(***************************************************************************)
(* Asset file names                                                        *)
(***************************************************************************)
IsLowerAlnum(c) == c \in Range(LowerChars) \cup Range(DigitChars)

\* s.replace(/[^a-z0-9]+/g, '-'): every run of other characters becomes one '-'
ReplaceRuns(s) ==
  LET keep == SelectSeq([i \in 1..Len(s) |-> i],
                        LAMBDA i : IsLowerAlnum(s[i]) \/ i = 1 \/ IsLowerAlnum(s[i - 1]))
  IN  [k \in 1..Len(keep) |-> IF IsLowerAlnum(s[keep[k]]) THEN s[keep[k]] ELSE "-"]

\* s.replace(/^-|-$/g, ''): one leading and one trailing '-' are removed
TrimDashes(s) ==
  LET a == IF Len(s) > 0 /\ s[1] = "-" THEN Tail(s) ELSE s
  IN  IF Len(a) > 0 /\ a[Len(a)] = "-" THEN SubSeq(a, 1, Len(a) - 1) ELSE a

\* the longest base kept by slice(0, 60)
MaxBaseLen == 60

AssetBase(name) ==
  LET b == Slice(TrimDashes(ReplaceRuns(toLowerCase(name))), MaxBaseLen)
  IN  IF b = << >> THEN <<"a","s","s","e","t">> ELSE b

Suffixed(base, counter, ext) == base \o <<"-">> \o NumToStr(counter) \o <<".">> \o ext

\* mutant of NextFreeCounter: the counter is not advanced past used names
NextFreeCounter_NoLoop(base, ext, usedNames) == 2

\* let counter = 2; while (usedNames.has(`${base}-${counter}.${ext}`)) counter++
NextFreeCounter(base, ext, usedNames) ==
  CHOOSE c \in 2..(Cardinality(usedNames) + 2) :
    /\ Suffixed(base, c, ext) \notin usedNames
    /\ \A d \in 2..(c - 1) : Suffixed(base, d, ext) \in usedNames

\* returns [fileName, usedNames]
toAssetFileName(name, ext, usedNames) ==
  LET base == AssetBase(name)
      plain == base \o <<".">> \o ext
      fileName == IF plain \in usedNames
                  THEN Suffixed(base, NextFreeCounter(base, ext, usedNames), ext)
                  ELSE plain
  IN  [fileName |-> fileName, usedNames |-> usedNames \cup {fileName}]

(***************************************************************************)
(* Scale snapping                                                          *)
(***************************************************************************)
\* mutant of snapFontSizeToTailwind: names already used are not skipped
snapFontSizeToTailwind_ReuseNames(rem, usedNames) ==
  LET dist == [i \in 1..Len(TW_TEXT_SCALE) |-> Abs(TW_TEXT_SCALE[i].rem - rem)]
      best == TW_TEXT_SCALE[ReduceClosest(dist)]
  IN  [name |-> best.name, usedNames |-> usedNames \cup {best.name}]

\* rem in units of 1 / RemUnit; returns [name, usedNames]
snapFontSizeToTailwind(rem, usedNames) ==
  LET free == SelectSeq(TW_TEXT_SCALE, LAMBDA step : step.name \notin usedNames)
      dist == [i \in 1..Len(free) |-> Abs(free[i].rem - rem)]
      best == IF free = << >> THEN TW_TEXT_SCALE[1]
              ELSE free[ReduceClosest(dist)]
  IN  [name |-> best.name, usedNames |-> usedNames \cup {best.name}]

\* mutant of snapRadiusToTailwind: no pill threshold, 'full' is a scale point
\* like the others
snapRadiusToTailwind_NoPill(px, usedNames) ==
  LET free == SelectSeq(TW_RADIUS_SCALE, LAMBDA step : step.name \notin usedNames)
      dist == [i \in 1..Len(free) |-> Abs(free[i].px - px)]
      best == IF free = << >> THEN TW_RADIUS_SCALE[1] ELSE free[ReduceClosest(dist)]
  IN  [name |-> best.name, usedNames |-> usedNames \cup {best.name}]

\* returns [name, usedNames]
snapRadiusToTailwind(px, usedNames) ==
  IF px >= 500
  THEN [name |-> <<"f","u","l","l">>, usedNames |-> usedNames \cup {<<"f","u","l","l">>}]
  ELSE LET free == SelectSeq(TW_RADIUS_SCALE,
                             LAMBDA step : /\ step.name # <<"f","u","l","l">>
                                           /\ step.name \notin usedNames)
           dist == [i \in 1..Len(free) |-> Abs(free[i].px - px)]
           best == IF free = << >> THEN TW_RADIUS_SCALE[1] ELSE free[ReduceClosest(dist)]
       IN  [name |-> best.name, usedNames |-> usedNames \cup {best.name}]

(***************************************************************************)
(* Greatest common divisor                                                 *)
(***************************************************************************)
\* a % b of JavaScript: the sign of the dividend, b not 0
JsRem(a, b) == IF a < 0 THEN 0 - (Abs(a) % Abs(b)) ELSE a % Abs(b)

\* mutant of gcd: the smaller argument
gcd_Smaller(a, b) == IF a < b THEN a ELSE b

\* while (b) { t = b; b = a % b; a = t } return a
RECURSIVE gcd(_, _)
gcd(a, b) == IF b = 0 THEN a ELSE gcd(b, JsRem(a, b))

\* the loop of findGCD from index i on, with its early return at 1
RECURSIVE GcdFrom(_, _, _)
GcdFrom(numbers, i, result) ==
  IF i > Len(numbers) THEN result
  ELSE The({ IF next = 1 THEN 1 ELSE GcdFrom(numbers, i + 1, next) :
             next \in {gcd(result, numbers[i])} })

findGCD(numbers) ==
  IF Len(numbers) = 0 THEN 0
  ELSE IF Len(numbers) = 1 THEN numbers[1]
  ELSE GcdFrom(numbers, 2, numbers[1])

(***************************************************************************)
(* Declarations of the scanned stylesheet in Tailwind-default mode         *)
(***************************************************************************)
\* [...values].sort((a, b) => a - b) of a set of numbers
RECURSIVE SortAscending(_)
SortAscending(values) ==
  IF values = {} THEN << >>
  ELSE The({ <<least>> \o SortAscending(values \ {least}) :
             least \in {CHOOSE v \in values : \A w \in values : v <= w} })

\* the names of the --text-* declarations, one per font size in the order
\* of the loop; usedTextNames is the set the loop has filled so far
RECURSIVE TextDeclarations(_, _)
TextDeclarations(fontSizes, usedTextNames) ==
  IF fontSizes = << >> THEN << >>
  ELSE The({ <<r.name>> \o TextDeclarations(Tail(fontSizes), r.usedNames) :
             r \in {snapFontSizeToTailwind((Head(fontSizes) * RemUnit) \div 16, usedTextNames)} })

\* the names of the --radius-* declarations, one per radius in the order of
\* the loop
RECURSIVE RadiusDeclarations(_, _)
RadiusDeclarations(sortedRadii, usedRadiusNames) ==
  IF sortedRadii = << >> THEN << >>
  ELSE The({ <<r.name>> \o RadiusDeclarations(Tail(sortedRadii), r.usedNames) :
             r \in {snapRadiusToTailwind(Head(sortedRadii), usedRadiusNames)} })

\* the custom properties generateScannedCSS declares for the font sizes of
\* the typography tokens and for the radii, with useTW set
generateScannedCSS(fontSizes, radii) ==
  [text   |-> TextDeclarations(SortAscending(fontSizes), {}),
   radius |-> RadiusDeclarations(SortAscending(radii), {})]

(***************************************************************************)
(* Scanning the page for tokens                                            *)
(***************************************************************************)
\* template interpolation of an integer
IntToStr(n) == IF n < 0 THEN <<"-">> \o NumToStr(0 - n) ELSE NumToStr(n)

\* a value that may be absent is << >> or <<value>>; `${v || ''}`
OrEmpty(v) == IF v = << >> \/ v[1] = 0 THEN << >> ELSE IntToStr(v[1])

\* `${fontSize}-${fontFamily}-${fontStyle}`
TypographyKey(text) ==
  IntToStr(text.fontSize) \o <<"-">> \o text.fontFamily \o <<"-">> \o text.fontStyle

\* `${effect.type}-${offset.x}-${offset.y}-${radius}-${spread || 0}-${hex}`
ShadowKey(effect) ==
  effect.type \o <<"-">> \o IntToStr(effect.offsetX) \o <<"-">> \o IntToStr(effect.offsetY)
    \o <<"-">> \o IntToStr(effect.radius) \o <<"-">> \o IntToStr(effect.spread)
    \o <<"-">> \o effect.color

\* stops.map(s => `${s.color}-${s.position}`).join('|')
RECURSIVE JoinStops(_)
JoinStops(stops) ==
  IF stops = << >> THEN << >>
  ELSE Head(stops).color \o <<"-">> \o IntToStr(Head(stops).position)
         \o (IF Len(stops) > 1 THEN <<"|">> \o JoinStops(Tail(stops)) ELSE << >>)

\* the stops joined + `|${angle}|${ellipseX || ''}|${ellipseY || ''}`
GradientKey(paint) ==
  JoinStops(paint.stops) \o <<"|">> \o IntToStr(paint.angle)
    \o <<"|">> \o OrEmpty(paint.ellipseX) \o <<"|">> \o OrEmpty(paint.ellipseY)

\* the entries the scan stores for a usage
TypographyEntry(text) ==
  [fontSize |-> text.fontSize, fontFamily |-> text.fontFamily,
   fontStyle |-> text.fontStyle, lineHeight |-> text.lineHeight]

ShadowEntry(effect) ==
  [type |-> IF effect.type = <<"I","N","N","E","R","_","S","H","A","D","O","W">> THEN "inset" ELSE "",
   offsetX |-> effect.offsetX, offsetY |-> effect.offsetY, blur |-> effect.radius,
   spread |-> effect.spread, color |-> effect.color]

GradientEntry(paint) ==
  [type |-> IF paint.type = <<"G","R","A","D","I","E","N","T","_","L","I","N","E","A","R">> THEN "linear" ELSE "radial",
   angle |-> paint.angle, stops |-> paint.stops,
   ellipseX |-> paint.ellipseX, ellipseY |-> paint.ellipseY,
   centerX |-> paint.centerX, centerY |-> paint.centerY]

\* if (!map.has(key)) map.set(key, entry)
SetIfAbsent(map, key, entry) ==
  IF MapHas(map, key) THEN map ELSE Append(map, <<key, entry>>)

\* one turn of the loop over the nodes of the page: a text node, a node
\* with a shadow effect or a node with a gradient fill
ScanNode(maps, node) ==
  IF node.kind = "typography"
  THEN [maps EXCEPT !.typography = SetIfAbsent(@, TypographyKey(node), TypographyEntry(node))]
  ELSE IF node.kind = "shadows"
  THEN [maps EXCEPT !.shadows = SetIfAbsent(@, ShadowKey(node), ShadowEntry(node))]
  ELSE [maps EXCEPT !.gradients = SetIfAbsent(@, GradientKey(node), GradientEntry(node))]

RECURSIVE ScanNodes(_, _)
ScanNodes(maps, allNodes) ==
  IF allNodes = << >> THEN maps
  ELSE The({ ScanNodes(next, Tail(allNodes)) : next \in {ScanNode(maps, Head(allNodes))} })

\* Array.prototype.sort by a numeric key, ascending and stable
StableSort(values, keys) ==
  [p \in 1..Len(values) |->
     values[CHOOSE i \in 1..Len(values) :
              Cardinality({j \in 1..Len(values) :
                             keys[j] < keys[i] \/ (keys[j] = keys[i] /\ j < i)}) = p - 1]]

\* the typography, shadows and gradients of the scan of a page
scanNodesForTokens(allNodes) ==
  The({ [typography |-> The({ StableSort(v, [i \in 1..Len(v) |-> 0 - v[i].fontSize]) :
                              v \in {MapValues(maps.typography)} }),
         shadows    |-> The({ StableSort(v, [i \in 1..Len(v) |-> v[i].blur]) :
                              v \in {MapValues(maps.shadows)} }),
         gradients  |-> MapValues(maps.gradients)] :
        maps \in {ScanNodes([typography |-> << >>, shadows |-> << >>, gradients |-> << >>],
                            allNodes)} })

(***************************************************************************)
(* The document                                                            *)
(***************************************************************************)
\* a node with the properties the compiler reads.  A property a node does
\* not carry here is absent on the Figma node as well: no strokes, effects,
\* alignment, layout sizing, wrap or clipping, one solid fill at most, four
\* equal paddings, text of one style.  fill is the colour <<r, g, b>> of the
\* node's solid paint of full opacity, whose channels are r / 255, g / 255
\* and b / 255
Node(type, name, parent, children, box, visible) ==
  [type |-> type, name |-> name, parent |-> parent, children |-> children,
   x |-> box[1], y |-> box[2], width |-> box[3], height |-> box[4],
   visible |-> visible, layoutMode |-> "NONE", itemSpacing |-> 0, padding |-> 0,
   fill |-> << >>, imageFill |-> FALSE, scaleMode |-> "FILL", cornerRadius |-> 0,
   fontSize |-> 0]

\* the page: a card with an image fill that holds a title, a photo, a logo
\* group of two shapes, an icon, a hidden picture, a stack of two
\* overlapping layers, a second icon of the same name, a shape filled with
\* a cover picture, and a search input whose hint is a group of a text and
\* a hidden icon
Document ==
  << [Node("FRAME", <<"H","e","r","o"," ","c","a","r","d">>, 0, <<2, 3, 4, 7, 8, 9, 12, 13, 14>>, <<0, 0, 400, 700>>, TRUE)
        EXCEPT !.layoutMode = "VERTICAL", !.itemSpacing = 16, !.padding = 24,
               !.fill = <<255, 255, 255>>, !.imageFill = TRUE],
     [Node("TEXT", <<"T","i","t","l","e">>, 1, << >>, <<24, 24, 200, 24>>, TRUE)
        EXCEPT !.fill = <<16, 64, 192>>, !.fontSize = 17],
     [Node("RECTANGLE", <<"P","h","o","t","o">>, 1, << >>, <<24, 64, 80, 80>>, TRUE)
        EXCEPT !.imageFill = TRUE, !.scaleMode = "FIT", !.cornerRadius = 5],
     Node("GROUP", <<"L","o","g","o">>, 1, <<5, 6>>, <<24, 160, 48, 48>>, TRUE),
     Node("VECTOR", <<"a">>, 4, << >>, <<24, 160, 48, 24>>, TRUE),
     Node("ELLIPSE", <<"b">>, 4, << >>, <<24, 184, 48, 24>>, TRUE),
     Node("VECTOR", <<"I","c","o","n">>, 1, << >>, <<24, 224, 24, 24>>, TRUE),
     [Node("RECTANGLE", <<"C","o","v","e","r">>, 1, << >>, <<24, 264, 80, 80>>, FALSE)
        EXCEPT !.imageFill = TRUE, !.fill = <<255, 0, 0>>, !.cornerRadius = 3],
     Node("FRAME", <<"S","t","a","c","k">>, 1, <<10, 11>>, <<24, 360, 200, 100>>, TRUE),
     [Node("RECTANGLE", <<"P","l","a","t","e">>, 9, << >>, <<0, 0, 200, 100>>, TRUE)
        EXCEPT !.fill = <<16, 64, 192>>, !.cornerRadius = 500],
     [Node("TEXT", <<"C","a","p","t","i","o","n">>, 9, << >>, <<10, 10, 100, 20>>, TRUE)
        EXCEPT !.fill = <<59, 130, 246>>, !.fontSize = 16],
     Node("VECTOR", <<"I","c","o","n">>, 1, << >>, <<24, 480, 24, 24>>, TRUE),
     [Node("VECTOR", <<"C","o","v","e","r">>, 1, << >>, <<24, 520, 120, 60>>, TRUE)
        EXCEPT !.imageFill = TRUE],
     Node("FRAME", <<"S","e","a","r","c","h"," ","i","n","p","u","t">>, 1, <<15>>, <<24, 600, 200, 40>>, TRUE),
     Node("GROUP", <<"H","i","n","t">>, 14, <<16, 17>>, <<8, 8, 120, 24>>, TRUE),
     [Node("TEXT", <<"H","i","n","t"," ","t","e","x","t">>, 15, << >>, <<8, 8, 90, 24>>, TRUE)
        EXCEPT !.fill = <<59, 130, 246>>, !.fontSize = 16],
     Node("VECTOR", <<"I","c","o","n">>, 15, << >>, <<100, 8, 24, 24>>, FALSE) >>

NodeIds == 1..Len(Document)

\* rgbaToHex(paint.color.r, paint.color.g, paint.color.b, 1) of a solid paint
SolidPaint(fill) ==
  rgbaToHex(JsNumber(Channel255(fill[1])), JsNumber(Channel255(fill[2])),
            JsNumber(Channel255(fill[3])), JsNumber(Literal(1, 1)))

\* the hex of the solid paint of every node that has one
FillHex ==
  [n \in NodeIds |-> IF Document[n].fill = << >> THEN << >> ELSE SolidPaint(Document[n].fill)]

\* the selections the user can make: nothing, or the card
Selections == { << >>, <<1>> }

\* the exportAsync calls a run on the card can make
ExportCalls == { <<1, "PNG">>, <<3, "PNG">>, <<4, "SVG">>, <<4, "PNG">>,
                 <<7, "SVG">>, <<12, "SVG">>, <<13, "PNG">>, <<13, "SVG">> }

\* the nodes in depth-first document order
RECURSIVE PreOrder(_)
PreOrder(ns) ==
  IF ns = << >> THEN << >>
  ELSE <<Head(ns)>> \o PreOrder(Document[Head(ns)].children) \o PreOrder(Tail(ns))

\* the document order of the tree under each node
DocumentOrder == [root \in NodeIds |-> PreOrder(<<root>>)]

\* position of node n in the document order of the tree under root
DocPosition(root, n) ==
  CHOOSE k \in 1..Len(DocumentOrder[root]) : DocumentOrder[root][k] = n

\* node n as the compiler holds it: its children are nodes, not ids
RECURSIVE Subtree(_)
Subtree(n) ==
  [Document[n] EXCEPT !.children =
     [i \in 1..Len(Document[n].children) |-> Subtree(Document[n].children[i])]]

(***************************************************************************)
(* Name patterns                                                           *)
(***************************************************************************)
\* \w after lower-casing
IsWordChar(c) == c \in Range(LowerChars) \cup Range(DigitChars) \cup {"_"}

\* /\bword\b/ on a lower-cased name; a word starts and ends with a \w
HasWord(name, word) ==
  \E i \in 1..(Len(name) - Len(word) + 1) :
    /\ SubSeq(name, i, i + Len(word) - 1) = word
    /\ i = 1 \/ ~IsWordChar(name[i - 1])
    /\ i + Len(word) - 1 = Len(name) \/ ~IsWordChar(name[i + Len(word)])

\* /\b(w1|w2|...)\b/i
HasAnyWord(name, words) ==
  The({ \E w \in words : HasWord(lower, w) : lower \in {toLowerCase(name)} })

\* /^word\b/i
StartsWithWord(name, word) ==
  The({ /\ StartsWith(lower, word)
        /\ Len(lower) = Len(word) \/ ~IsWordChar(lower[Len(word) + 1]) :
        lower \in {toLowerCase(name)} })

(***************************************************************************)
(* Semantic elements                                                       *)
(***************************************************************************)
Semantic(tag, extraClasses, selfClosing, attrs, wrapChildren) ==
  [tag |-> tag, extraClasses |-> extraClasses, selfClosing |-> selfClosing,
   attrs |-> attrs, wrapChildren |-> wrapChildren]

\* the name rules in their order; start marks the one pattern anchored at
\* the start of the name
SEMANTIC_NAME_RULES ==
  << [words |-> {<<"b","u","t","t","o","n">>, <<"b","t","n">>, <<"c","t","a">>}, start |-> FALSE,
      result |-> Semantic("button", <<<<"c","u","r","s","o","r","-","p","o","i","n","t","e","r">>>>, FALSE, "", "")],
     [words |-> {<<"l","i","n","k">>, <<"a","n","c","h","o","r">>}, start |-> FALSE,
      result |-> Semantic("a", << >>, FALSE, "href=\"#\"", "")],
     [words |-> {<<"n","a","v">>, <<"n","a","v","b","a","r">>, <<"n","a","v","i","g","a","t","i","o","n">>, <<"m","e","n","u">>}, start |-> FALSE,
      result |-> Semantic("nav", << >>, FALSE, "", "")],
     [words |-> {<<"h","e","a","d","e","r">>, <<"t","o","p","b","a","r">>, <<"a","p","p","-","b","a","r">>}, start |-> FALSE,
      result |-> Semantic("header", << >>, FALSE, "", "")],
     [words |-> {<<"f","o","o","t","e","r">>, <<"b","o","t","t","o","m","-","b","a","r">>}, start |-> FALSE,
      result |-> Semantic("footer", << >>, FALSE, "", "")],
     [words |-> {<<"m","a","i","n">>}, start |-> TRUE,
      result |-> Semantic("main", << >>, FALSE, "", "")],
     [words |-> {<<"s","i","d","e","b","a","r">>, <<"a","s","i","d","e">>, <<"d","r","a","w","e","r">>}, start |-> FALSE,
      result |-> Semantic("aside", << >>, FALSE, "", "")],
     [words |-> {<<"i","n","p","u","t">>, <<"t","e","x","t","-","f","i","e","l","d">>, <<"t","e","x","t","f","i","e","l","d">>, <<"s","e","a","r","c","h","-","b","a","r">>}, start |-> FALSE,
      result |-> Semantic("input", <<<<"o","u","t","l","i","n","e","-","n","o","n","e">>>>, TRUE, "", "")],
     [words |-> {<<"l","a","b","e","l">>}, start |-> FALSE,
      result |-> Semantic("label", << >>, FALSE, "", "")],
     [words |-> {<<"d","i","v","i","d","e","r">>, <<"s","e","p","a","r","a","t","o","r">>}, start |-> FALSE,
      result |-> Semantic("hr", << >>, TRUE, "", "")],
     [words |-> {<<"b","a","d","g","e">>, <<"t","a","g">>, <<"c","h","i","p">>}, start |-> FALSE,
      result |-> Semantic("span", << >>, FALSE, "", "")],
     [words |-> {<<"r","a","d","i","o">>}, start |-> FALSE,
      result |-> Semantic("input", << >>, TRUE, "type=\"radio\"", "")],
     [words |-> {<<"c","h","e","c","k","b","o","x">>, <<"c","h","e","c","k">>}, start |-> FALSE,
      result |-> Semantic("input", << >>, TRUE, "type=\"checkbox\"", "")] >>

\* rule.pattern.test(name)
RuleMatches(rule, name) ==
  IF rule.start THEN \E w \in rule.words : StartsWithWord(name, w)
  ELSE HasAnyWord(name, rule.words)

IsFrame(n) == Document[n].type \in {"FRAME", "COMPONENT", "INSTANCE"}

\* mutant of TextTag: a size on a threshold falls into the class below
TextTag_Above(fontSize) ==
  The({ IF size > 32 THEN "h1" ELSE IF size > 24 THEN "h2"
        ELSE IF size > 20 THEN "h3" ELSE IF size > 18 THEN "h4" ELSE "p" :
        size \in {IF fontSize = 0 THEN 16 ELSE fontSize} })

\* the tag of a TEXT node from its font size; a size that is not a number
\* counts as 16
TextTag(fontSize) ==
  The({ IF size >= 32 THEN "h1" ELSE IF size >= 24 THEN "h2"
        ELSE IF size >= 20 THEN "h3" ELSE IF size >= 18 THEN "h4" ELSE "p" :
        size \in {IF fontSize = 0 THEN 16 ELSE fontSize} })

\* children.reduce((sum, c) => sum + c.height, 0)
RECURSIVE SumHeights(_)
SumHeights(children) ==
  IF children = << >> THEN 0 ELSE Head(children).height + SumHeights(Tail(children))

\* small frame of one or two visible children with a text child, a solid
\* fill and only TEXT, VECTOR or ELLIPSE children
ButtonLike(node) ==
  The({ /\ Len(children) <= 2 /\ Len(children) >= 1
        /\ node.width < 300 /\ node.height <= 60
        /\ \E i \in 1..Len(children) : children[i].type = "TEXT"
        /\ node.fill # << >>
        /\ ~\E i \in 1..Len(children) :
              children[i].type \notin {"TEXT", "VECTOR", "ELLIPSE"} :
        children \in {SelectSeq(node.children, LAMBDA c : c.visible)} })

\* auto-layout frame of three or more visible children of one type whose
\* heights are all within 30% of their average
ListLike(node) ==
  The({ /\ node.layoutMode # "NONE" /\ Len(children) >= 3
        /\ \A i \in 1..Len(children) : children[i].type = children[1].type
        /\ The({ \A i \in 1..Len(children) :
                   10 * Abs(Len(children) * children[i].height - sum) < 3 * sum :
                 sum \in {SumHeights(children)} }) :
        children \in {SelectSeq(node.children, LAMBDA c : c.visible)} })

\* thin rectangle
SeparatorLike(node) ==
  /\ node.type = "RECTANGLE"
  /\ \/ node.height < 3 /\ node.width > 30
     \/ node.width < 3 /\ node.height > 30

\* mutant of FirstRule: the last rule that matches decides
FirstRule_Last(name) ==
  IF \E k \in 1..Len(SEMANTIC_NAME_RULES) : RuleMatches(SEMANTIC_NAME_RULES[k], name)
  THEN CHOOSE k \in 1..Len(SEMANTIC_NAME_RULES) :
         /\ RuleMatches(SEMANTIC_NAME_RULES[k], name)
         /\ \A j \in (k + 1)..Len(SEMANTIC_NAME_RULES) :
              ~RuleMatches(SEMANTIC_NAME_RULES[j], name)
  ELSE 0

\* the first name rule that matches the name, 0 when none does
FirstRule(name) ==
  IF \E k \in 1..Len(SEMANTIC_NAME_RULES) : RuleMatches(SEMANTIC_NAME_RULES[k], name)
  THEN CHOOSE k \in 1..Len(SEMANTIC_NAME_RULES) :
         /\ RuleMatches(SEMANTIC_NAME_RULES[k], name)
         /\ \A j \in 1..(k - 1) : ~RuleMatches(SEMANTIC_NAME_RULES[j], name)
  ELSE 0

detectSemanticElement(node, isTopLevel) ==
  LET isFrame == node.type \in {"FRAME", "COMPONENT", "INSTANCE"}
  IN  IF node.type = "TEXT"
      THEN Semantic(TextTag(node.fontSize), << >>, FALSE, "", "")
      ELSE IF FirstRule(node.name) # 0
      THEN SEMANTIC_NAME_RULES[FirstRule(node.name)].result
      ELSE IF isFrame /\ ButtonLike(node)
      THEN Semantic("button", <<<<"c","u","r","s","o","r","-","p","o","i","n","t","e","r">>>>, FALSE, "", "")
      ELSE IF isFrame /\ ListLike(node)
      THEN Semantic("ul", <<<<"l","i","s","t","-","n","o","n","e">>>>, FALSE, "", "li")
      ELSE IF SeparatorLike(node) THEN Semantic("hr", << >>, TRUE, "", "")
      ELSE Semantic(IF isTopLevel THEN "section" ELSE "div", << >>, FALSE, "", "")

(***************************************************************************)
(* Composite images, layout inference and image fills                      *)
(***************************************************************************)
isVectorLike(node) ==
  node.type \in {"VECTOR", "ELLIPSE", "LINE", "STAR", "POLYGON", "BOOLEAN_OPERATION"}

\* a node whose visible children exist and are all vector-like
isVectorContainer(node) ==
  The({ Len(visible) > 0 /\ \A i \in 1..Len(visible) : isVectorLike(visible[i]) :
        visible \in {SelectSeq(node.children, LAMBDA c : c.visible)} })

COMPOSITE_NAME_WORDS ==
  {<<"l","o","g","o">>, <<"i","c","o","n">>, <<"s","y","m","b","o","l">>, <<"g","l","y","p","h">>, <<"e","m","b","l","e","m">>, <<"c","r","e","s","t">>, <<"i","n","s","i","g","n","i","a">>, <<"m","a","r","k">>}

\* the decision once the visible children are known
CompositeOf(node, visibleChildren) ==
  The({ IF visibleChildren = << >> THEN FALSE
        ELSE IF /\ c.isLargeContainer
                /\ node.type \in {"FRAME", "COMPONENT", "INSTANCE"}
                /\ node.layoutMode # "NONE"
        THEN FALSE
        ELSE IF c.allVector THEN ~c.isLargeContainer
        ELSE IF HasAnyWord(node.name, COMPOSITE_NAME_WORDS) /\ c.allVectorOrContainers
        THEN TRUE
        ELSE /\ node.type = "GROUP"
             /\ ~c.isLargeContainer
             /\ c.allVectorOrContainers :
        c \in { [isLargeContainer |-> node.width > 100 /\ Len(visibleChildren) > 2,
                 allVector |-> \A i \in 1..Len(visibleChildren) :
                                 isVectorLike(visibleChildren[i]),
                 allVectorOrContainers |->
                   \A i \in 1..Len(visibleChildren) :
                     isVectorLike(visibleChildren[i]) \/ isVectorContainer(visibleChildren[i])] } })

shouldExportAsCompositeImage(node) ==
  The({ CompositeOf(node, visible) :
        visible \in {SelectSeq(node.children, LAMBDA c : c.visible)} })

\* mutant of OverlapCount: boxes that touch at an edge count as well
OverlapCount_Closed(children) ==
  Cardinality({ p \in (1..Len(children)) \X (1..Len(children)) :
    /\ p[1] < p[2]
    /\ The({ /\ ab[1].x <= ab[2].x + ab[2].width /\ ab[1].x + ab[1].width >= ab[2].x
             /\ ab[1].y <= ab[2].y + ab[2].height /\ ab[1].y + ab[1].height >= ab[2].y :
             ab \in {<<children[p[1]], children[p[2]]>>} }) })

\* the pairs of children whose boxes intersect
OverlapCount(children) ==
  Cardinality({ p \in (1..Len(children)) \X (1..Len(children)) :
    /\ p[1] < p[2]
    /\ The({ /\ ab[1].x < ab[2].x + ab[2].width /\ ab[1].x + ab[1].width > ab[2].x
             /\ ab[1].y < ab[2].y + ab[2].height /\ ab[1].y + ab[1].height > ab[2].y :
             ab \in {<<children[p[1]], children[p[2]]>>} }) })

\* Math.max(...yPositions) - Math.min(...yPositions)
YRange(children) ==
  The({ (CHOOSE hi \in ys : \A y \in ys : y <= hi) - (CHOOSE lo \in ys : \A y \in ys : lo <= y) :
        ys \in { {children[i].y : i \in 1..Len(children)} } })

\* the children the layout is inferred from, were hidden ones counted
LayoutChildren_AllChildren(frame) == frame.children

\* frame.children.filter(c => c.visible !== false)
LayoutChildren(frame) == SelectSeq(frame.children, LAMBDA c : c.visible)

\* 'row', 'col' or 'overlap' from the boxes of the visible children
inferLayoutFromChildren(frame) ==
  The({ IF Len(children) <= 1 THEN "col"
        ELSE IF 10 * OverlapCount(children) > 3 * Len(children) THEN "overlap"
        ELSE IF 2 * Len(children) * YRange(children) < SumHeights(children) THEN "row"
        ELSE "col" :
        children \in {LayoutChildren(frame)} })

isAutoLayout(n) == Document[n].layoutMode # "NONE"

\* !isAutoLayout && frame.children.length > 0 && inferLayoutFromChildren(frame) === 'overlap'
isOverlap(n) ==
  /\ ~isAutoLayout(n)
  /\ Len(Document[n].children) > 0
  /\ inferLayoutFromChildren(Subtree(n)) = "overlap"

hasImageFill(n) == Document[n].imageFill

hasVisibleChildren(n) == \E i \in 1..Len(Document[n].children) :
                           Document[Document[n].children[i]].visible

BG_NAME_WORDS == {<<"b","g">>, <<"b","a","c","k","g","r","o","u","n","d">>, <<"h","e","r","o">>, <<"c","o","v","e","r">>, <<"b","a","n","n","e","r">>, <<"b","a","c","k","d","r","o","p">>}
IMAGE_NAME_WORDS == {<<"i","m","g">>, <<"i","m","a","g","e">>, <<"p","h","o","t","o">>, <<"a","v","a","t","a","r">>, <<"l","o","g","o">>, <<"i","c","o","n">>,
                     <<"t","h","u","m","b">>, <<"t","h","u","m","b","n","a","i","l">>}

Score(cond, points) == IF cond THEN points ELSE 0

\* the share of the parent's area the node covers is compared as a product;
\* a node without a parent of positive size scores nothing for coverage
BgScore(n) ==
  Score(HasAnyWord(Document[n].name, BG_NAME_WORDS), 2)
  + Score(Document[n].scaleMode \in {"FILL", "CROP"}, 1)
  + Score(/\ Document[n].parent # 0
          /\ The({ /\ p.width > 0 /\ p.height > 0
                   /\ 10 * Document[n].width * Document[n].height >= 7 * p.width * p.height :
                   p \in {Document[IF Document[n].parent = 0 THEN n
                                   ELSE Document[n].parent]} }), 1)

ImageScore(n, parentIsAutoLayout) ==
  Score(HasAnyWord(Document[n].name, IMAGE_NAME_WORDS), 2)
  + Score(Document[n].scaleMode \in {"FIT", "TILE"}, 1)
  + Score(/\ Document[n].parent # 0
          /\ The({ /\ p.width > 0 /\ p.height > 0
                   /\ 10 * Document[n].width * Document[n].height <= 2 * p.width * p.height :
                   p \in {Document[IF Document[n].parent = 0 THEN n
                                   ELSE Document[n].parent]} }), 1)
  + Score(Document[n].width <= 96 /\ Document[n].height <= 96, 1)
  + Score(parentIsAutoLayout, 1)

\* 'background' or 'image'
classifyImageFillUsage(n, parentIsAutoLayout) ==
  IF hasVisibleChildren(n) THEN "background"
  ELSE IF BgScore(n) > ImageScore(n, parentIsAutoLayout) THEN "background"
  ELSE "image"

(***************************************************************************)
(* Utility classes of a node                                               *)
(***************************************************************************)
\* a class to push: a literal, or a prefix followed by the name of a raw
\* value (spacing, color, radius, fontSize)
Lit(class) == [kind |-> "lit", prefix |-> class, value |-> 0]
Named(kind, prefix, value) == [kind |-> kind, prefix |-> prefix, value |-> value]

\* layout, gap and padding classes of a frame
FrameRequests(n) ==
  (IF isAutoLayout(n)
   THEN <<Lit(<<"f","l","e","x">>)>>
        \o (IF Document[n].layoutMode = "VERTICAL" THEN <<Lit(<<"f","l","e","x","-","c","o","l">>)>> ELSE << >>)
        \o (IF Document[n].itemSpacing > 0
            THEN <<Named("spacing", <<"g","a","p","-">>, Document[n].itemSpacing)>> ELSE << >>)
   ELSE IF Len(Document[n].children) > 0
   THEN The({ IF layout = "row" THEN <<Lit(<<"f","l","e","x">>)>>
              ELSE IF layout = "col" THEN <<Lit(<<"f","l","e","x">>), Lit(<<"f","l","e","x","-","c","o","l">>)>>
              ELSE <<Lit(<<"r","e","l","a","t","i","v","e">>)>> :
              layout \in {inferLayoutFromChildren(Subtree(n))} })
   ELSE << >>)
  \o (IF Document[n].padding > 0
      THEN <<Named("spacing", <<"p","-">>, Document[n].padding)>> ELSE << >>)

\* width and height classes
SizeRequests(n, parentIsAutoLayout, isTopLevel) ==
  IF isTopLevel THEN <<Lit(<<"w","-","f","u","l","l">>)>>
  ELSE IF ~parentIsAutoLayout
  THEN (IF Document[n].width > 0
        THEN <<Named("spacing", <<"w","-">>, Document[n].width)>> ELSE << >>)
       \o (IF Document[n].height > 0
           THEN <<Named("spacing", <<"h","-">>, Document[n].height)>> ELSE << >>)
  ELSE IF Document[n].type # "TEXT" /\ Document[n].width > 0
  THEN <<Lit(<<"w","-","[">> \o NumToStr(Document[n].width) \o <<"p","x","]">>)>>
  ELSE << >>

\* fill, corner radius and font size classes
PaintRequests(n) ==
  (IF Document[n].fill # << >>
   THEN <<Named("color", IF Document[n].type = "TEXT" THEN <<"t","e","x","t","-">> ELSE <<"b","g","-">>,
                FillHex[n])>>
   ELSE << >>)
  \o (IF Document[n].cornerRadius > 0
      THEN <<Named("radius", <<"r","o","u","n","d","e","d","-">>, Document[n].cornerRadius)>> ELSE << >>)
  \o (IF Document[n].type = "TEXT" /\ Document[n].fontSize > 0
      THEN <<Named("fontSize", <<"t","e","x","t","-">>, Document[n].fontSize)>> ELSE << >>)

\* the classes both nodeToClasses functions push, in their order
ClassRequests(n, parentIsAutoLayout, isTopLevel) ==
  (IF IsFrame(n) THEN FrameRequests(n) ELSE << >>)
  \o SizeRequests(n, parentIsAutoLayout, isTopLevel)
  \o PaintRequests(n)

hexToTailwindColor(hex) ==
  The({ IF MapHas(TW_COLORS, lower) THEN MapGet(TW_COLORS, lower)
        ELSE <<"[">> \o hex \o <<"]">> :
        lower \in {toLowerCase(hex)} })

\* rounded-full from 500px, the nearest scale name within 1px, or [<r>px]
PlainRadius(px) ==
  IF px >= 500 THEN <<"f","u","l","l">>
  ELSE The({ IF Abs(closest.px - px) <= 1 THEN closest.name
             ELSE <<"[">> \o NumToStr(px) \o <<"p","x","]">> :
             closest \in {RadiusScaleNoFull[ReduceClosest(
               [i \in 1..Len(RadiusScaleNoFull) |-> Abs(RadiusScaleNoFull[i].px - px)])]} })

\* the nearest text scale name within 0.05rem, or [<px>px]
PlainFontSize(px) ==
  The({ IF 20 * Abs(closest.rem - px * 1000) < RemUnit THEN closest.name
        ELSE <<"[">> \o NumToStr(px) \o <<"p","x","]">> :
        closest \in {TW_TEXT_SCALE[ReduceClosest(
          [i \in 1..Len(TW_TEXT_SCALE) |-> Abs(TW_TEXT_SCALE[i].rem - px * 1000)])]} })

\* the name nodeToClasses gives a raw value
PlainName(req) ==
  CASE req.kind = "spacing" -> pxToTailwindSpacing(req.value)
    [] req.kind = "color" -> hexToTailwindColor(req.value)
    [] req.kind = "radius" -> PlainRadius(req.value)
    [] req.kind = "fontSize" -> PlainFontSize(req.value)
    [] OTHER -> << >>

\* the name nodeToClassesWithRegistry gives a raw value, and the registry
\* after the call
RegisteredName(registry, req) ==
  CASE req.kind = "spacing" -> registerSpacing(registry, req.value)
    [] req.kind = "color" -> registerColor(registry, req.value, NoExtractedColors)
    [] req.kind = "radius" -> registerRadius(registry, req.value)
    [] req.kind = "fontSize" -> registerFontSize(registry, req.value)
    [] OTHER -> [name |-> << >>, registry |-> registry]

\* the requests resolved one after the other on the registry
RECURSIVE ResolveWithRegistry(_, _, _)
ResolveWithRegistry(reqs, classes, registry) ==
  IF reqs = << >> THEN [classes |-> classes, registry |-> registry]
  ELSE The({ ResolveWithRegistry(Tail(reqs), Append(classes, Head(reqs).prefix \o r.name),
                                 r.registry) :
             r \in {RegisteredName(registry, Head(reqs))} })

\* returns [classes, registry]
nodeToClassesWithRegistry(registry, n, parentIsAutoLayout, isTopLevel) ==
  IF ~Document[n].visible THEN [classes |-> << >>, registry |-> registry]
  ELSE The({ ResolveWithRegistry(reqs, << >>, registry) :
             reqs \in {ClassRequests(n, parentIsAutoLayout, isTopLevel)} })

nodeToClasses(n, parentIsAutoLayout, isTopLevel) ==
  IF ~Document[n].visible THEN << >>
  ELSE The({ [i \in 1..Len(reqs) |-> reqs[i].prefix \o PlainName(reqs[i])] :
             reqs \in {ClassRequests(n, parentIsAutoLayout, isTopLevel)} })

(***************************************************************************)
(* Markup, assets and imports                                              *)
(***************************************************************************)
\* one line of markup: what it is, the node it stands for, its nesting depth
\* and the parts of the line that vary.  kind is open, close, void (self
\* closing), empty (<div ...></div>), text, img, comment, jsxcomment,
\* wrapopen, wrapclose or import; jsx tells className= from class= and the
\* braced from the quoted attribute syntax
Tok(kind, n, indent, jsx, tag, classes, src, bg, attrs) ==
  [kind |-> kind, node |-> n, indent |-> indent, jsx |-> jsx, tag |-> tag,
   classes |-> classes, src |-> src, bg |-> bg, attrs |-> attrs]

\* mutant of nextAssetId: the id is made from the counter before the increment
nextAssetId_PostIncrement(counter) ==
  [id |-> <<"a","s","s","e","t","-">> \o NumToStr(counter), assetCounter |-> counter + 1]

\* `asset-${++assetCounter}`; returns [id, assetCounter]
nextAssetId(counter) ==
  [id |-> <<"a","s","s","e","t","-">> \o NumToStr(counter + 1), assetCounter |-> counter + 1]

\* the reference the markup carries for an asset id
Placeholder(id) == <<"{","{","a","s","s","e","t",":">> \o id \o <<"}","}">>

\* the image reference of a fill whose export was rejected
PLACEHOLDER_SVG == <<"/","p","l","a","c","e","h","o","l","d","e","r",".","s","v","g">>

\* node.name || fallback
NameOr(n, fallback) == IF Document[n].name = << >> THEN fallback ELSE Document[n].name

getBackgroundImageClasses(n) ==
  IF Document[n].scaleMode = "TILE" THEN <<<<"b","g","-","r","e","p","e","a","t">>>>
  ELSE IF Document[n].scaleMode = "FIT"
  THEN <<<<"b","g","-","c","o","n","t","a","i","n">>, <<"b","g","-","c","e","n","t","e","r">>, <<"b","g","-","n","o","-","r","e","p","e","a","t">>>>
  ELSE <<<<"b","g","-","c","o","v","e","r">>, <<"b","g","-","c","e","n","t","e","r">>, <<"b","g","-","n","o","-","r","e","p","e","a","t">>>>

getImageClasses(n, parentIsAutoLayout) ==
  <<<<"m","a","x","-","w","-","f","u","l","l">>>>
  \o (IF Document[n].scaleMode \in {"FILL", "CROP"} THEN <<<<"o","b","j","e","c","t","-","c","o","v","e","r">>>>
      ELSE IF Document[n].scaleMode = "FIT" THEN <<<<"o","b","j","e","c","t","-","c","o","n","t","a","i","n">>>> ELSE << >>)
  \o (IF ~parentIsAutoLayout /\ Document[n].height > 0 THEN << >> ELSE <<<<"h","-","a","u","t","o">>>>)
  \o (IF ~parentIsAutoLayout THEN << >>
      ELSE IF /\ Document[n].parent # 0
              /\ Abs(Document[n].width
                     - Document[IF Document[n].parent = 0 THEN n
                                ELSE Document[n].parent].width) < 2
      THEN <<<<"w","-","f","u","l","l">>>>
      ELSE <<<<"s","h","r","i","n","k","-","0">>, <<"w","-","[">> \o NumToStr(Document[n].width) \o <<"p","x","]">>>>)

getVectorImgClasses == <<<<"s","h","r","i","n","k","-","0">>>>

\* ['shrink-0', `w-[${w}px]`, `h-[${h}px]`, ...extraClasses]
CompositeClasses(n, extraClasses) ==
  <<<<"s","h","r","i","n","k","-","0">>, <<"w","-","[">> \o NumToStr(Document[n].width) \o <<"p","x","]">>,
    <<"h","-","[">> \o NumToStr(Document[n].height) \o <<"p","x","]">>>> \o extraClasses

\* the shadcn/ui components by name pattern, in their order
SHADCN_NAME_RULES ==
  << [words |-> {<<"b","u","t","t","o","n">>, <<"b","t","n">>, <<"c","t","a">>}, name |-> "Button"],
     [words |-> {<<"c","a","r","d">>}, name |-> "Card"],
     [words |-> {<<"i","n","p","u","t">>, <<"t","e","x","t","-","f","i","e","l","d">>, <<"t","e","x","t","f","i","e","l","d">>, <<"s","e","a","r","c","h","-","b","a","r">>}, name |-> "Input"],
     [words |-> {<<"b","a","d","g","e">>, <<"t","a","g">>, <<"c","h","i","p">>}, name |-> "Badge"],
     [words |-> {<<"a","v","a","t","a","r">>}, name |-> "Avatar"],
     [words |-> {<<"d","i","v","i","d","e","r">>, <<"s","e","p","a","r","a","t","o","r">>}, name |-> "Separator"],
     [words |-> {<<"s","w","i","t","c","h">>, <<"t","o","g","g","l","e">>}, name |-> "Switch"],
     [words |-> {<<"c","h","e","c","k","b","o","x">>, <<"c","h","e","c","k">>}, name |-> "Checkbox"],
     [words |-> {<<"r","a","d","i","o">>}, name |-> "RadioGroup"],
     [words |-> {<<"s","e","l","e","c","t">>, <<"d","r","o","p","d","o","w","n">>}, name |-> "Select"],
     [words |-> {<<"d","i","a","l","o","g">>, <<"m","o","d","a","l">>}, name |-> "Dialog"],
     [words |-> {<<"t","a","b","s">>}, name |-> "Tabs"] >>

\* the component name, or "" for null
detectShadcnComponent(n, semanticTag) ==
  IF \E k \in 1..Len(SHADCN_NAME_RULES) :
       HasAnyWord(Document[n].name, SHADCN_NAME_RULES[k].words)
  THEN SHADCN_NAME_RULES[CHOOSE k \in 1..Len(SHADCN_NAME_RULES) :
         /\ HasAnyWord(Document[n].name, SHADCN_NAME_RULES[k].words)
         /\ \A j \in 1..(k - 1) :
              ~HasAnyWord(Document[n].name, SHADCN_NAME_RULES[j].words)].name
  ELSE IF semanticTag = "button" THEN "Button"
  ELSE IF semanticTag = "input" THEN "Input"
  ELSE ""

\* ImportCollector.add: every import path carries one component name, so
\* the collector is the sequence of the names in order of first use
ImportAdd(imports, name) ==
  IF \E i \in 1..Len(imports) : imports[i] = name THEN imports ELSE Append(imports, name)

\* ImportCollector.generate: one import line per path
ImportLines(imports) ==
  [i \in 1..Len(imports) |-> Tok("import", 0, 0, TRUE, imports[i], << >>, << >>, << >>, "")]

\* the fraction num / den rounded to an integer, den > 0 (halves round up)
RoundDiv(num, den) == (2 * num + den) \div (2 * den)

\* rem.toFixed(3) of px / 16
RemToFixed3(px) ==
  The({ NumToStr(t \div 1000) \o <<".">>
        \o NumToStr((t % 1000) \div 100) \o NumToStr((t % 100) \div 10) \o NumToStr(t % 10) :
        t \in {RoundDiv(px * 1000, 16)} })

\* the lines of the @theme block
buildThemeCSS(registry) ==
  << <<"@","t","h","e","m","e"," ","{">> >>
  \o (IF Len(registry.colors) > 0
      THEN <<<<" "," ","/","*"," ","C","o","l","o","r","s"," ","*","/">>>>
           \o [i \in 1..Len(registry.colors) |->
                 <<" "," ","-","-","c","o","l","o","r","-">> \o registry.colors[i][2] \o <<":"," ">>
                 \o registry.colors[i][1] \o <<";">>]
      ELSE << >>)
  \o (IF Len(registry.fontSizes) > 0
      THEN <<<< >>, <<" "," ","/","*"," ","F","o","n","t"," ","S","i","z","e","s"," ","*","/">>>>
           \o [i \in 1..Len(registry.fontSizes) |->
                 <<" "," ","-","-","t","e","x","t","-">> \o registry.fontSizes[i][2] \o <<":"," ">>
                 \o RemToFixed3(registry.fontSizes[i][1]) \o <<"r","e","m",";">>]
      ELSE << >>)
  \o (IF Len(registry.spacing) > 0
      THEN <<<< >>, <<" "," ","/","*"," ","S","p","a","c","i","n","g"," ","*","/">>>>
           \o [i \in 1..Len(registry.spacing) |->
                 <<" "," ","-","-","s","p","a","c","i","n","g","-">> \o registry.spacing[i][2] \o <<":"," ">>
                 \o RemToFixed3(registry.spacing[i][1]) \o <<"r","e","m",";">>]
      ELSE << >>)
  \o (IF Len(registry.radii) > 0
      THEN <<<< >>, <<" "," ","/","*"," ","B","o","r","d","e","r"," ","R","a","d","i","u","s"," ","*","/">>>>
           \o [i \in 1..Len(registry.radii) |->
                 <<" "," ","-","-","r","a","d","i","u","s","-">> \o registry.radii[i][2] \o <<":"," ">>
                 \o NumToStr(registry.radii[i][1]) \o <<"p","x",";">>]
      ELSE << >>)
  \o << <<"}">> >>

(***************************************************************************)
(* The markup compiler                                                     *)
(*                                                                         *)
(* One generate-layer handler is a record: its flags, the objects it       *)
(* created (registry, assets, usedFileNames, importCollector), the markup  *)
(* built so far, and its position in the recursive walk: the agenda of     *)
(* calls and lines still to come, and the export it is suspended at.  The  *)
(* module-level assetCounter travels in the record while the handler runs. *)
(***************************************************************************)
NoPending == [kind |-> "none"]

\* the handler's state on entry of its try block
NewRun(root, generateCSS, jsxMode, counter) ==
  [root |-> root, generateCSS |-> generateCSS, jsxMode |-> jsxMode,
   registry |-> createTokenRegistry, assets |-> << >>, usedFileNames |-> {},
   imports |-> << >>, html |-> << >>, agenda |-> << >>, pending |-> NoPending,
   ids |-> << >>, calls |-> << >>, rejected |-> << >>, overwrote |-> FALSE,
   assetCounter |-> counter]

\* a call generateLayer*(node, indent, isTopLevel, parentIsAutoLayout, ...)
NodeItem(n, indent, isTopLevel, parentIsAutoLayout) ==
  [op |-> "node", node |-> n, indent |-> indent, isTopLevel |-> isTopLevel,
   parentIsAutoLayout |-> parentIsAutoLayout]

\* html += line
EmitItem(tok) == [op |-> "emit", tok |-> tok]

\* one iteration of a frame's loop over its children
IterItem(parent, child, indent, overlap, wrapChildren) ==
  [op |-> "iter", node |-> child, parent |-> parent, indent |-> indent,
   overlap |-> overlap, wrapChildren |-> wrapChildren]

Emit(m, tok) == [m EXCEPT !.html = Append(@, tok)]

\* the items put in front of the agenda
Push(m, items) == [m EXCEPT !.agenda = items \o @]

\* the classes of a list of requests and the registry after them
Resolve(m, reqs) ==
  IF m.generateCSS THEN ResolveWithRegistry(reqs, << >>, m.registry)
  ELSE [classes |-> [i \in 1..Len(reqs) |-> reqs[i].prefix \o PlainName(reqs[i])],
        registry |-> m.registry]

\* nodeToClasses or nodeToClassesWithRegistry; the JSX walkers do not pass
\* isTopLevel on
ClassesOf(m, n, parentIsAutoLayout, isTopLevel) ==
  IF m.generateCSS
  THEN nodeToClassesWithRegistry(m.registry, n, parentIsAutoLayout,
                                 isTopLevel /\ ~m.jsxMode)
  ELSE [classes |-> nodeToClasses(n, parentIsAutoLayout, isTopLevel /\ ~m.jsxMode),
        registry |-> m.registry]

\* const id = nextAssetId(), then the await of exportAsync
Suspend(m, n, kind, format, item, classes) ==
  The({ [m EXCEPT !.assetCounter = r.assetCounter,
                  !.ids = Append(@, [id |-> r.id, node |-> n]),
                  !.calls = Append(@, <<n, format>>),
                  !.pending = [kind |-> kind, node |-> n, format |-> format, id |-> r.id,
                               item |-> item, classes |-> classes]] :
        r \in {nextAssetId(m.assetCounter)} })

\* assets[id] = { mimeType, fileName: toAssetFileName(name, ext, usedFileNames) }
AddAsset(m, id, name, ext, mimeType) ==
  The({ [m EXCEPT !.assets = MapSet(@, id, [mimeType |-> mimeType, fileName |-> r.fileName]),
                  !.usedFileNames = r.usedNames,
                  !.overwrote = @ \/ MapHas(m.assets, id)] :
        r \in {toAssetFileName(name, ext, m.usedFileNames)} })

\* history: the export of the pending id was rejected for good
Reject(m, p) == [m EXCEPT !.rejected = Append(@, [id |-> p.id, node |-> p.node])]

\* a GROUP that is not a composite: <div>, every child, </div>
WalkGroup(m, it, allClasses) ==
  Push(Emit(m, Tok("open", it.node, it.indent, m.jsxMode, "div", allClasses, << >>, << >>, "")),
       [i \in 1..Len(Document[it.node].children) |->
          NodeItem(Document[it.node].children[i], it.indent + 1, FALSE, FALSE)]
       \o <<EmitItem(Tok("close", it.node, it.indent, m.jsxMode, "div", << >>, << >>, << >>, ""))>>)

\* a frame that is neither a composite nor self-closing: the comment of a
\* component, the opening tag, the loop over the children, the closing tag
WalkFrame(m, it, sem, tag, allClasses, bg) ==
  The({ Push(Emit(withComment,
                  Tok("open", it.node, it.indent, m.jsxMode, tag, allClasses, << >>, bg,
                      sem.attrs)),
             [i \in 1..Len(Document[it.node].children) |->
                IterItem(it.node, Document[it.node].children[i], it.indent,
                         isOverlap(it.node), sem.wrapChildren)]
             \o <<EmitItem(Tok("close", it.node, it.indent, m.jsxMode, tag, << >>, << >>,
                               << >>, ""))>>) :
        withComment \in
          { IF Document[it.node].type \in {"COMPONENT", "INSTANCE"}
            THEN Emit(m, Tok(IF m.jsxMode THEN "jsxcomment" ELSE "comment", it.node,
                             it.indent, m.jsxMode, "", << >>, << >>, << >>, ""))
            ELSE m } })

\* the walker from the semantic detection on, for a node whose image fill,
\* if any, has been dealt with
AfterFill(m, it, classes, bgClasses, bg) ==
  The({ The({
    IF Document[it.node].type = "TEXT"
    THEN Emit(m, Tok("text", it.node, it.indent, m.jsxMode, sem.tag, allClasses, << >>,
                     << >>, ""))
    ELSE IF Document[it.node].type \in {"VECTOR", "ELLIPSE", "LINE", "STAR", "POLYGON"}
    THEN Suspend(m, it.node, "vector", "SVG", it, allClasses \o getVectorImgClasses)
    ELSE IF Document[it.node].type = "RECTANGLE"
    THEN IF shadcn # ""
         THEN Emit([m EXCEPT !.imports = ImportAdd(@, shadcn)],
                   Tok("void", it.node, it.indent, m.jsxMode, shadcn, allClasses, << >>, bg, ""))
         ELSE IF sem.selfClosing
         THEN Emit(m, Tok("void", it.node, it.indent, m.jsxMode, sem.tag, allClasses, << >>,
                          bg, ""))
         ELSE Emit(m, Tok("empty", it.node, it.indent, m.jsxMode, "div", allClasses, << >>,
                          bg, ""))
    ELSE IF Document[it.node].type = "GROUP"
    THEN IF shouldExportAsCompositeImage(Subtree(it.node))
         THEN Suspend(m, it.node, "compositeSvg", "SVG", it, CompositeClasses(it.node, << >>))
         ELSE WalkGroup(m, it, allClasses)
    ELSE IF IsFrame(it.node)
    THEN IF shouldExportAsCompositeImage(Subtree(it.node))
         THEN Suspend(m, it.node, "compositeSvg", "SVG", it,
                      CompositeClasses(it.node, allClasses))
         ELSE The({ IF sem.selfClosing /\ Len(Document[it.node].children) = 0
                    THEN Emit(mi, Tok("void", it.node, it.indent, m.jsxMode,
                                      IF shadcn # "" THEN shadcn ELSE sem.tag,
                                      allClasses, << >>, bg, sem.attrs))
                    ELSE WalkFrame(mi, it, sem, IF shadcn # "" THEN shadcn ELSE sem.tag,
                                   allClasses, bg) :
                    mi \in { IF shadcn # "" THEN [m EXCEPT !.imports = ImportAdd(@, shadcn)]
                             ELSE m } })
    ELSE Emit(m, Tok("empty", it.node, it.indent, m.jsxMode, "div", allClasses, << >>, bg, "")) :
    allClasses \in { IF m.jsxMode THEN classes \o sem.extraClasses \o bgClasses
                     ELSE classes \o bgClasses \o sem.extraClasses },
    shadcn \in { IF m.jsxMode THEN detectShadcnComponent(it.node, sem.tag) ELSE "" } }) :
    sem \in {detectSemanticElement(Subtree(it.node), it.isTopLevel)} })

\* mutant of Visit: the walker does not return on an invisible node
Visit_Invisible(m, it) ==
  The({ IF hasImageFill(it.node)
        THEN Suspend([m EXCEPT !.registry = c.registry], it.node, "fill", "PNG", it, c.classes)
        ELSE AfterFill([m EXCEPT !.registry = c.registry], it, c.classes, << >>, << >>) :
        c \in {ClassesOf(m, it.node, it.parentIsAutoLayout, it.isTopLevel)} })

\* generateLayer*(node, ...) up to its first await
Visit(m, it) ==
  IF ~Document[it.node].visible THEN m
  ELSE The({ IF hasImageFill(it.node)
             THEN Suspend([m EXCEPT !.registry = c.registry], it.node, "fill", "PNG", it,
                          c.classes)
             ELSE AfterFill([m EXCEPT !.registry = c.registry], it, c.classes, << >>, << >>) :
             c \in {ClassesOf(m, it.node, it.parentIsAutoLayout, it.isTopLevel)} })

\* the classes of a child laid over its siblings
OverlapRequests(child) ==
  ClassRequests(child, FALSE, FALSE)
  \o <<Lit(<<"a","b","s","o","l","u","t","e">>)>>
  \o (IF Document[child].y > 0 THEN <<Named("spacing", <<"t","o","p","-">>, Document[child].y)>>
      ELSE << >>)
  \o (IF Document[child].x > 0 THEN <<Named("spacing", <<"l","e","f","t","-">>, Document[child].x)>>
      ELSE << >>)

\* one iteration of the loop over a frame's children
Iter(m, it) ==
  IF ~Document[it.node].visible THEN m
  ELSE IF it.overlap
  THEN The({ IF Document[it.node].type = "TEXT"
             THEN Emit([m EXCEPT !.registry = c.registry],
                       Tok("text", it.node, it.indent + 1, m.jsxMode,
                           detectSemanticElement(Subtree(it.node), FALSE).tag, c.classes, << >>,
                           << >>, ""))
             ELSE Push(Emit([m EXCEPT !.registry = c.registry],
                            Tok("wrapopen", it.node, it.indent + 1, m.jsxMode, "div",
                                c.classes, << >>, << >>, "")),
                       <<NodeItem(it.node, it.indent + 2, FALSE, FALSE),
                         EmitItem(Tok("wrapclose", it.node, it.indent + 1, m.jsxMode, "div",
                                      << >>, << >>, << >>, ""))>>) :
             c \in {Resolve(m, OverlapRequests(it.node))} })
  ELSE IF it.wrapChildren # ""
  THEN Push(Emit(m, Tok("wrapopen", it.node, it.indent + 1, m.jsxMode, it.wrapChildren,
                        << >>, << >>, << >>, "")),
            <<NodeItem(it.node, it.indent + 2, FALSE, isAutoLayout(it.parent)),
              EmitItem(Tok("wrapclose", it.node, it.indent + 1, m.jsxMode, it.wrapChildren,
                           << >>, << >>, << >>, ""))>>)
  ELSE Push(m, <<NodeItem(it.node, it.indent + 1, FALSE, isAutoLayout(it.parent))>>)

\* the first item of the agenda carried out
Step(m) ==
  The({ IF item.op = "emit" THEN Emit(rest, item.tok)
        ELSE IF item.op = "iter" THEN Iter(rest, item)
        ELSE Visit(rest, item) :
        item \in {Head(m.agenda)}, rest \in {[m EXCEPT !.agenda = Tail(@)]} })

\* the handler runs until it awaits an export or the walk has returned
RECURSIVE Walk(_)
Walk(m) ==
  IF m.pending # NoPending \/ m.agenda = << >> THEN m
  ELSE The({ Walk(next) : next \in {Step(m)} })

\* the <img> of an exported vector or composite
AssetImg(m, p) ==
  Emit(m, Tok("img", p.node, p.item.indent, m.jsxMode, "img", p.classes, Placeholder(p.id),
              << >>, "width height"))

\* mutant of VectorRejected: the catch branch emits the image all the same
VectorRejected_StillImg(m, p) == AssetImg(Reject(m, p), p)

\* catch (e) of a vector export: an inline comment
VectorRejected(m, p) ==
  Emit(Reject(m, p), Tok(IF m.jsxMode THEN "jsxcomment" ELSE "comment", p.node,
                         p.item.indent, m.jsxMode, "", << >>, << >>, << >>, ""))

\* catch (e2) of exportCompositeImage: an HTML comment in either mode
CompositeRejected(m, p) ==
  Emit(Reject(m, p), Tok("comment", p.node, p.item.indent, m.jsxMode, "", << >>, << >>,
                         << >>, ""))

\* the walker after exportImageFillToAsset has returned; exported tells
\* whether it returned an asset
FillSettled(m, p, exported) ==
  IF classifyImageFillUsage(p.node, p.item.parentIsAutoLayout) = "image"
  THEN Emit(m, Tok("img", p.node, p.item.indent, m.jsxMode, "img",
                   (IF m.jsxMode
                    THEN p.classes \o detectSemanticElement(Subtree(p.node), p.item.isTopLevel).extraClasses
                    ELSE p.classes)
                   \o getImageClasses(p.node, p.item.parentIsAutoLayout),
                   IF exported THEN Placeholder(p.id) ELSE PLACEHOLDER_SVG, << >>, ""))
  ELSE IF exported
  THEN AfterFill(m, p.item, p.classes, getBackgroundImageClasses(p.node), Placeholder(p.id))
  ELSE AfterFill(m, p.item, p.classes, << >>, << >>)

\* the awaited exportAsync resolves (ok) or rejects, and the handler goes on
\* to its next await
Settle(m, ok) ==
  The({ IF p.kind = "fill"
        THEN IF ok
             THEN The({ FillSettled(added, p, TRUE) :
                        added \in {AddAsset(idle, p.id, NameOr(p.node, <<"i","m","a","g","e">>), <<"p","n","g">>,
                                            "image/png")} })
             ELSE The({ FillSettled(failed, p, FALSE) : failed \in {Reject(idle, p)} })
        ELSE IF p.kind = "vector"
        THEN IF ok
             THEN The({ AssetImg(added, p) :
                        added \in {AddAsset(idle, p.id, NameOr(p.node, <<"i","c","o","n">>), <<"s","v","g">>,
                                            "image/svg+xml")} })
             ELSE VectorRejected(idle, p)
        ELSE IF p.kind = "compositeSvg"
        THEN IF ok
             THEN The({ AssetImg(added, p) :
                        added \in {AddAsset(idle, p.id, NameOr(p.node, <<"i","c","o","n">>), <<"s","v","g">>,
                                            "image/svg+xml")} })
             ELSE [idle EXCEPT !.pending = [p EXCEPT !.kind = "compositePng",
                                                     !.format = "PNG"],
                               !.calls = Append(@, <<p.node, "PNG">>)]
        ELSE IF ok
        THEN The({ AssetImg(added, p) :
                   added \in {AddAsset(idle, p.id, NameOr(p.node, <<"i","c","o","n">>), <<"p","n","g">>,
                                       "image/png")} })
        ELSE CompositeRejected(idle, p) :
        p \in {m.pending}, idle \in {[m EXCEPT !.pending = NoPending]} })

\* the walk has returned and the handler has nothing left to await
Returned(m) == m.pending = NoPending /\ m.agenda = << >>

\* imports + '\n' + html in JSX mode when there are imports
FinalMarkup(m) ==
  IF m.jsxMode /\ m.imports # << >> THEN ImportLines(m.imports) \o m.html ELSE m.html

\* the message posted at the end of the try block
LayerGenerated(m) ==
  [type |-> "layer-generated", html |-> FinalMarkup(m),
   css |-> IF m.generateCSS THEN buildThemeCSS(m.registry) ELSE << >>,
   jsxMode |-> m.jsxMode, assets |-> m.assets, error |-> ""]

\* the message posted when nothing is selected
NoLayerSelected ==
  [type |-> "layer-generated", html |-> << >>, css |-> << >>, jsxMode |-> FALSE,
   assets |-> << >>, error |-> "No layer selected"]

\* history: what a handler that has returned did
LogEntry(m) ==
  [root |-> m.root, generateCSS |-> m.generateCSS, jsxMode |-> m.jsxMode,
   ids |-> m.ids, calls |-> m.calls, rejected |-> m.rejected, overwrote |-> m.overwrote,
   html |-> FinalMarkup(m),
   css |-> IF m.generateCSS THEN buildThemeCSS(m.registry) ELSE << >>,
   assets |-> m.assets, error |-> ""]

\* history: a handler that returned before its try block
NothingDone ==
  [root |-> 0, generateCSS |-> FALSE, jsxMode |-> FALSE, ids |-> << >>, calls |-> << >>,
   rejected |-> << >>,
   overwrote |-> FALSE, html |-> << >>, css |-> << >>, assets |-> << >>,
   error |-> "No layer selected"]

\* the handler as it is kept while suspended: without the module-level counter
Suspended(m) == [f \in DOMAIN m \ {"assetCounter"} |-> m[f]]

\* a suspended handler resumed under the current value of the counter
Resumed(run, counter) ==
  [f \in DOMAIN run \cup {"assetCounter"} |->
     IF f = "assetCounter" THEN counter ELSE run[f]]

(***************************************************************************)
(* State                                                                   *)
(***************************************************************************)
VARIABLES
  registry,     \* the TokenRegistry of the register* calls under study
  regLast,      \* the last register* call: operation, argument, result, registry before
  regFirst,     \* history: <<operation, key>> -> name returned by the first call
  regCalls,     \* number of register* calls made
  population,   \* the colours handed to classifyColorsForTailwind
  classified,   \* its result, once it has run
  usedNames,    \* the used-file-names set of the toAssetFileName calls under study
  fileReturned, \* the file names toAssetFileName returned, in call order
  snapUsed,     \* the used-names set handed to the snap helper
  snapLast,     \* the last snap: argument, result, used set before
  selection,    \* figma.currentPage.selection, a sequence of node ids
  exportFails,  \* the <<node, format>> pairs whose exportAsync rejects
  assetCounter, \* the module-level counter behind nextAssetId
  runs,         \* the generate-layer handlers suspended at an export await
  runLog,       \* history: what each finished generate-layer handler did
  toPlugin,     \* messages posted by the UI, not yet handled by the plugin
  toUI,         \* messages posted by the plugin, not yet handled by the UI
  ui,           \* the UI script's state
  delivered,    \* history: the layer-generated messages the UI has handled
  clicks,       \* history: number of clicks on the Generate button
  helper,       \* the last call of a helper function under study: arguments and result
  page,         \* the document: the version of the page's content, and whether
                \* variables or styles are defined
  cachedSource,        \* 'scan' or 'variables'
  cachedScannedTokens, \* << >> for null, or <<tokens>>
  extracts,     \* the extractVariables() calls suspended at an await
  requests      \* history: the extract and run-lint messages handled and the
                \* extractions finished, in order, each with the tokens it
                \* scanned or linted

regVars == <<registry, regLast, regFirst, regCalls>>
clsVars == <<population, classified>>
fileVars == <<usedNames, fileReturned>>
snapVars == <<snapUsed, snapLast>>
pluginVars == <<selection, exportFails, assetCounter, runs, runLog, toPlugin, toUI, ui,
                delivered, clicks>>
helperVars == <<helper>>
lintVars == <<page, cachedSource, cachedScannedTokens, extracts, requests>>
vars == <<regVars, clsVars, fileVars, snapVars, pluginVars, helperVars, lintVars>>

(***************************************************************************)
(* Register calls on one registry                                          *)
(***************************************************************************)
\* spellings of colours passed to registerColor: five blues outside the
\* default palette, one of them also in upper case, and a palette colour
HexInputs ==
  { <<"#","1","0","4","0","c","0">>, <<"#","2","0","5","0","d","0">>,
    <<"#","3","0","6","0","e","0">>, <<"#","4","0","7","0","f","0">>,
    <<"#","5","0","8","0","f","f">>, <<"#","1","0","4","0","C","0">>,
    <<"#","3","b","8","2","f","6">> }
FontPxInputs == {16, 17}
SpacingInputs == {2, 3, 50}
RadiusInputs == {5, 500, 600}

NoCall == [op |-> "none", arg |-> 0, key |-> 0, name |-> << >>, seen |-> FALSE,
           before |-> createTokenRegistry]

\* one call r = register*(registry, arg), recorded with its result
RecordCall(op, arg, key, r) ==
  /\ regCalls < MaxRegCalls
  /\ regCalls' = regCalls + 1
  /\ registry' = r.registry
  /\ regLast' = [op |-> op, arg |-> arg, key |-> key, name |-> r.name,
                 seen |-> MapHas(regFirst, <<op, key>>), before |-> registry]
  /\ regFirst' = IF MapHas(regFirst, <<op, key>>) THEN regFirst
                 ELSE Append(regFirst, <<<<op, key>>, r.name>>)

RegisterColor ==
  /\ \E hex \in HexInputs :
       \E r \in {registerColor(registry, hex, NoExtractedColors)} :
         RecordCall("color", hex, toLowerCase(hex), r)
  /\ UNCHANGED <<clsVars, fileVars, snapVars, pluginVars, helperVars, lintVars>>

RegisterFontSize ==
  /\ \E px \in FontPxInputs :
       \E r \in {registerFontSize(registry, px)} : RecordCall("fontSize", px, px, r)
  /\ UNCHANGED <<clsVars, fileVars, snapVars, pluginVars, helperVars, lintVars>>

RegisterSpacing ==
  /\ \E px \in SpacingInputs :
       \E r \in {registerSpacing(registry, px)} : RecordCall("spacing", px, px, r)
  /\ UNCHANGED <<clsVars, fileVars, snapVars, pluginVars, helperVars, lintVars>>

RegisterRadius ==
  /\ \E px \in RadiusInputs :
       \E r \in {registerRadius(registry, px)} : RecordCall("radius", px, px, r)
  /\ UNCHANGED <<clsVars, fileVars, snapVars, pluginVars, helperVars, lintVars>>

RegNext == RegisterColor \/ RegisterFontSize \/ RegisterSpacing \/ RegisterRadius

(***************************************************************************)
(* Claims on the token registry                                            *)
(***************************************************************************)
\* no two keys of the map hold the same name
InjectiveMap(m) ==
  \A i, j \in 1..Len(m) : m[i][2] = m[j][2] => i = j

\* C1: in one registry no name is held by two different raw values of the
\* same category: the colors, fontSizes, spacing and radii maps are injective.
C1_NamesInjective ==
  /\ InjectiveMap(registry.colors)
  /\ InjectiveMap(registry.fontSizes)
  /\ InjectiveMap(registry.spacing)
  /\ InjectiveMap(registry.radii)

\* C2: registering a raw value that was registered before returns the name
\* returned the first time and leaves every registry map unchanged.
C2_RegisterIdempotent ==
  regLast.seen =>
    /\ regLast.name = MapGet(regFirst, <<regLast.op, regLast.key>>)
    /\ registry = regLast.before

\* a value registered a second time, after other values came in between,
\* the second time under another spelling
C2_Witness ==
  /\ regLast.seen
  /\ regLast.op = "color"
  /\ Len(registry.colors) >= 2
  /\ regLast.key = registry.colors[1][1]
  /\ regLast.arg # regLast.key

(***************************************************************************)
(* One classification of a colour population                               *)
(***************************************************************************)
\* the colours a population is drawn from, in scan order: seven grays used
\* as fills, two blues and a red
ColorUniverse ==
  << [hex |-> <<"#","2","2","2","2","2","2">>, count |-> 4, usedAs |-> {"fill"}],
     [hex |-> <<"#","d","d","d","d","d","d">>, count |-> 1, usedAs |-> {"fill"}],
     [hex |-> <<"#","4","4","4","4","4","4">>, count |-> 2, usedAs |-> {"fill"}],
     [hex |-> <<"#","1","0","4","0","c","0">>, count |-> 5, usedAs |-> {"text"}],
     [hex |-> <<"#","6","6","6","6","6","6">>, count |-> 2, usedAs |-> {"fill"}],
     [hex |-> <<"#","8","0","8","0","8","0">>, count |-> 7, usedAs |-> {"fill"}],
     [hex |-> <<"#","c","c","2","0","2","0">>, count |-> 3, usedAs |-> {"fill", "text"}],
     [hex |-> <<"#","9","9","9","9","9","9">>, count |-> 1, usedAs |-> {"fill"}],
     [hex |-> <<"#","5","0","8","0","f","f">>, count |-> 2, usedAs |-> {"stroke"}],
     [hex |-> <<"#","b","b","b","b","b","b">>, count |-> 1, usedAs |-> {"fill"}] >>

\* the entries of univ at the positions in S, in order
Subsequence(univ, S) ==
  LET idx == SelectSeq([i \in 1..Len(univ) |-> i], LAMBDA i : i \in S)
  IN  [k \in 1..Len(idx) |-> univ[idx[k]]]

NotClassified == [done |-> FALSE, semantic |-> << >>, palette |-> << >>]

\* the populations explored: the sub-lists of the universe
Populations == {Subsequence(ColorUniverse, S) : S \in SUBSET (1..Len(ColorUniverse))}

Classify ==
  /\ ~classified.done
  /\ \E r \in {classifyColorsForTailwind(population)} :
       classified' = [done |-> TRUE, semantic |-> r.semantic, palette |-> r.palette]
  /\ UNCHANGED <<population, regVars, fileVars, snapVars, pluginVars, helperVars, lintVars>>

ClsNext == Classify

(***************************************************************************)
(* toAssetFileName calls on one used-names set                             *)
(***************************************************************************)
\* node names: plain, upper case, already suffixed, spaced, empty after
\* sanitising, and the fallback base itself
NameInputs ==
  { <<"a">>, <<"A">>, <<"a","-","2">>, <<"a"," ","2">>, <<"!","!">>,
    <<"a","s","s","e","t">>, <<"-","a","-","2","-","2","!">> }
ExtInputs == { <<"p","n","g">>, <<"s","v","g">> }

ToAssetFileName ==
  /\ Len(fileReturned) < MaxFileCalls
  /\ \E name \in NameInputs, ext \in ExtInputs :
       \E r \in {toAssetFileName(name, ext, usedNames)} :
         /\ usedNames' = r.usedNames
         /\ fileReturned' = Append(fileReturned, r.fileName)
  /\ UNCHANGED <<regVars, clsVars, snapVars, pluginVars, helperVars, lintVars>>

FileNext == ToAssetFileName

(***************************************************************************)
(* snapFontSizeToTailwind calls on one used-names set                      *)
(***************************************************************************)
\* font sizes in px, snapped as px / 16 rem
SnapPxInputs == {9, 16, 17, 21, 40, 200}

NoSnap == [called |-> FALSE, rem |-> 0, name |-> << >>, before |-> {}]

SnapFontSize ==
  /\ \E px \in SnapPxInputs :
       \E r \in {snapFontSizeToTailwind(px * 1000, snapUsed)} :
         /\ snapUsed' = r.usedNames
         /\ snapLast' = [called |-> TRUE, rem |-> px * 1000, name |-> r.name,
                         before |-> snapUsed]
  /\ UNCHANGED <<regVars, clsVars, fileVars, pluginVars, helperVars, lintVars>>

SnapNext == SnapFontSize

(***************************************************************************)
(* The plugin and its UI                                                   *)
(***************************************************************************)
MaxRuns == 2

MaxUnhandled == 1

DisabledAfterClick_Not == FALSE

\* generateLayerBtn.disabled = true in the click listener
DisabledAfterClick == TRUE

AssetCounterAtStart_Kept(counter) == counter

\* assetCounter = 0 on entry of the handler's try block
AssetCounterAtStart(counter) == 0

Remove(seq, i) == [k \in 1..(Len(seq) - 1) |-> IF k < i THEN seq[k] ELSE seq[k + 1]]

\* the user clicks Generate; the toggles give the two flags
ClickGenerate ==
  /\ ~ui.generateLayerBtnDisabled
  /\ clicks < MaxRuns
  /\ \E generateCSS \in BOOLEAN, jsxMode \in BOOLEAN :
       toPlugin' = Append(toPlugin, [type |-> "generate-layer", generateCSS |-> generateCSS,
                                     jsxMode |-> jsxMode])
  /\ ui' = [ui EXCEPT !.generateLayerBtnDisabled = DisabledAfterClick]
  /\ clicks' = clicks + 1
  /\ UNCHANGED <<selection, exportFails, assetCounter, runs, runLog, toUI, delivered>>
  /\ UNCHANGED <<regVars, clsVars, fileVars, snapVars, helperVars, lintVars>>

\* figma.ui.onmessage for 'generate-layer', up to its first await or its end
HandleGenerateLayer ==
  /\ toPlugin # << >>
  /\ toPlugin' = Tail(toPlugin)
  /\ IF selection = << >>
     THEN /\ toUI' = Append(toUI, NoLayerSelected)
          /\ runLog' = Append(runLog, NothingDone)
          /\ UNCHANGED <<assetCounter, runs>>
     ELSE \E msg \in {Head(toPlugin)} :
          \E m \in {Walk(Push(NewRun(selection[1], msg.generateCSS, msg.jsxMode,
                                     AssetCounterAtStart(assetCounter)),
                              <<NodeItem(selection[1], 0, TRUE, FALSE)>>))} :
            /\ assetCounter' = m.assetCounter
            /\ IF Returned(m)
               THEN /\ toUI' = Append(toUI, LayerGenerated(m))
                    /\ runLog' = Append(runLog, LogEntry(m))
                    /\ UNCHANGED runs
               ELSE /\ runs' = Append(runs, Suspended(m))
                    /\ UNCHANGED <<toUI, runLog>>
  /\ UNCHANGED <<selection, exportFails, ui, delivered, clicks>>
  /\ UNCHANGED <<regVars, clsVars, fileVars, snapVars, helperVars, lintVars>>

\* the exportAsync a handler awaits settles and the handler runs on to its
\* next await or its end
ExportSettles ==
  /\ \E i \in 1..Len(runs) :
     \E m \in {Walk(Settle(Resumed(runs[i], assetCounter),
                           <<runs[i].pending.node, runs[i].pending.format>>
                             \notin exportFails))} :
       /\ assetCounter' = m.assetCounter
       /\ IF Returned(m)
          THEN /\ toUI' = Append(toUI, LayerGenerated(m))
               /\ runLog' = Append(runLog, LogEntry(m))
               /\ runs' = Remove(runs, i)
          ELSE /\ runs' = [runs EXCEPT ![i] = Suspended(m)]
               /\ UNCHANGED <<toUI, runLog>>
  /\ UNCHANGED <<selection, exportFails, toPlugin, ui, delivered, clicks>>
  /\ UNCHANGED <<regVars, clsVars, fileVars, snapVars, helperVars, lintVars>>

\* the UI's onmessage for 'layer-generated'
ReceiveLayerGenerated ==
  /\ toUI # << >>
  /\ Head(toUI).type = "layer-generated"
  /\ toUI' = Tail(toUI)
  /\ \E msg \in {Head(toUI)} :
       /\ ui' = IF msg.error # ""
                THEN [ui EXCEPT !.generateLayerBtnDisabled = FALSE,
                                !.currentLayerHTML = << >>,
                                !.currentLayerCSS = << >>,
                                !.currentAssets = << >>]
                ELSE [ui EXCEPT !.generateLayerBtnDisabled = FALSE,
                                !.currentLayerHTML = msg.html,
                                !.currentLayerCSS = msg.css,
                                !.currentAssets = msg.assets]
       /\ delivered' = Append(delivered, msg)
  /\ UNCHANGED <<selection, exportFails, assetCounter, runs, runLog, toPlugin, clicks>>
  /\ UNCHANGED <<regVars, clsVars, fileVars, snapVars, helperVars, lintVars>>

\* the user selects or deselects the layer: figma.on('selectionchange')
SelectionChange ==
  /\ Len(toUI) < MaxUnhandled
  /\ \E s \in Selections \ {selection} :
       /\ selection' = s
       /\ toUI' = Append(toUI, [type |-> "selection-changed", hasSelection |-> s # << >>])
  /\ UNCHANGED <<exportFails, assetCounter, runs, runLog, toPlugin, ui, delivered, clicks>>
  /\ UNCHANGED <<regVars, clsVars, fileVars, snapVars, helperVars, lintVars>>

\* the UI's onmessage for 'selection-changed'
ReceiveSelectionChanged ==
  /\ toUI # << >>
  /\ Head(toUI).type = "selection-changed"
  /\ toUI' = Tail(toUI)
  /\ ui' = IF Head(toUI).hasSelection
           THEN [ui EXCEPT !.hasSelection = TRUE]
           ELSE [ui EXCEPT !.hasSelection = FALSE, !.currentLayerHTML = << >>]
  /\ UNCHANGED <<selection, exportFails, assetCounter, runs, runLog, toPlugin, delivered,
                 clicks>>
  /\ UNCHANGED <<regVars, clsVars, fileVars, snapVars, helperVars, lintVars>>

Next ==
  \/ ClickGenerate
  \/ HandleGenerateLayer
  \/ ExportSettles
  \/ ReceiveLayerGenerated
  \/ SelectionChange
  \/ ReceiveSelectionChanged

(***************************************************************************)
(* Calls of helper functions                                               *)
(***************************************************************************)
MaxGcdLen == 3

NoHelperCall == [op |-> "none", done |-> FALSE]

GcdInputs == {-6, -4, 0, 1, 4, 6, 9, 12}

\* the calls of findGCD under study: non-empty lists of integers
GcdCalls ==
  {[op |-> "findGCD", done |-> FALSE, numbers |-> numbers] :
     numbers \in UNION {[1..len -> GcdInputs] : len \in 1..MaxGcdLen}}

FindGCD ==
  /\ helper.op = "findGCD" /\ ~helper.done
  /\ helper' = [op |-> "findGCD", done |-> TRUE, numbers |-> helper.numbers,
                result |-> findGCD(helper.numbers)]
  /\ UNCHANGED <<regVars, clsVars, fileVars, snapVars, pluginVars, lintVars>>

RadiusScaleNames == {TW_RADIUS_SCALE[i].name : i \in 1..Len(TW_RADIUS_SCALE)}

\* the calls of snapRadiusToTailwind under study: radii on both sides of the
\* pill threshold, on and between scale points, with every set of used names
SnapRadiusCalls ==
  {[op |-> "snapRadiusToTailwind", done |-> FALSE, px |-> px, usedNames |-> used] :
     px \in {0, 3, 5, 7, 16, 499, 500, 9999}, used \in SUBSET RadiusScaleNames}

SnapRadius ==
  /\ helper.op = "snapRadiusToTailwind" /\ ~helper.done
  /\ \E r \in {snapRadiusToTailwind(helper.px, helper.usedNames)} :
       helper' = [op |-> "snapRadiusToTailwind", done |-> TRUE, px |-> helper.px,
                  usedNames |-> helper.usedNames, name |-> r.name, after |-> r.usedNames]
  /\ UNCHANGED <<regVars, clsVars, fileVars, snapVars, pluginVars, lintVars>>

TextScaleNameSet == {TW_TEXT_SCALE[i].name : i \in 1..Len(TW_TEXT_SCALE)}

\* the calls of snapFontSizeToTailwind under study: sizes on and between
\* scale points, with the used sets over the small names, all names, and all
\* names but the largest
SnapTextCalls ==
  {[op |-> "snapFontSizeToTailwind", done |-> FALSE, rem |-> px * 1000, usedNames |-> used] :
     px \in {9, 13, 16, 17, 21, 200},
     used \in SUBSET {TW_TEXT_SCALE[i].name : i \in 1..4}
               \cup {TextScaleNameSet,
                     TextScaleNameSet \ {TW_TEXT_SCALE[Len(TW_TEXT_SCALE)].name}}}

SnapText ==
  /\ helper.op = "snapFontSizeToTailwind" /\ ~helper.done
  /\ \E r \in {snapFontSizeToTailwind(helper.rem, helper.usedNames)} :
       helper' = [op |-> "snapFontSizeToTailwind", done |-> TRUE, rem |-> helper.rem,
                  usedNames |-> helper.usedNames, name |-> r.name, after |-> r.usedNames]
  /\ UNCHANGED <<regVars, clsVars, fileVars, snapVars, pluginVars, lintVars>>

MaxChildren == 3

\* the children a frame under study can hold: a box, a box overlapping it,
\* a box that touches it at an edge, a box beside it and a box below it,
\* each visible or hidden
LayoutChildSet ==
  {Node("RECTANGLE", <<"b","o","x">>, 1, << >>, box, visible) :
     box \in {<<0, 0, 50, 50>>, <<25, 25, 50, 50>>, <<50, 0, 50, 50>>, <<100, 0, 50, 50>>,
              <<0, 100, 50, 50>>},
     visible \in BOOLEAN}

\* the calls of inferLayoutFromChildren under study: a frame without
\* auto-layout of up to MaxChildren children
InferLayoutCalls ==
  {[op |-> "inferLayoutFromChildren", done |-> FALSE,
    frame |-> Node("FRAME", <<"R","o","w">>, 0, children, <<0, 0, 200, 200>>, TRUE)] :
     children \in UNION {[1..len -> LayoutChildSet] : len \in 0..MaxChildren}}

InferLayout ==
  /\ helper.op = "inferLayoutFromChildren" /\ ~helper.done
  /\ helper' = [op |-> "inferLayoutFromChildren", done |-> TRUE, frame |-> helper.frame,
                result |-> inferLayoutFromChildren(helper.frame)]
  /\ UNCHANGED <<regVars, clsVars, fileVars, snapVars, pluginVars, lintVars>>

\* the children a container under study can hold: a shape, a hidden
\* picture, a picture, a group of two shapes, and a group of a shape and a
\* text
Shape(type, visible) == Node(type, <<"a">>, 1, << >>, <<0, 0, 24, 24>>, visible)

CompositeChildSet ==
  { Shape("VECTOR", TRUE), Shape("RECTANGLE", FALSE), Shape("RECTANGLE", TRUE),
    Node("GROUP", <<"g">>, 1, <<Shape("VECTOR", TRUE), Shape("ELLIPSE", TRUE)>>,
         <<0, 0, 24, 24>>, TRUE),
    Node("GROUP", <<"g">>, 1, <<Shape("VECTOR", TRUE), Shape("TEXT", TRUE)>>,
         <<0, 0, 24, 24>>, TRUE) }

\* the calls of shouldExportAsCompositeImage under study: frames with and
\* without auto-layout and groups, 48 and 300 wide, named after the icon
\* keyword list or not, of up to MaxChildren children
CompositeCalls ==
  {[op |-> "shouldExportAsCompositeImage", done |-> FALSE,
    node |-> [Node(kind[1], name, 0, children, <<0, 0, width, 48>>, TRUE)
                EXCEPT !.layoutMode = kind[2]]] :
     kind \in {<<"FRAME", "NONE">>, <<"FRAME", "HORIZONTAL">>, <<"GROUP", "NONE">>},
     name \in {<<"B","r","a","n","d"," ","L","o","g","o">>, <<"S","w","a","t","c","h","e","s">>},
     width \in {48, 300},
     children \in UNION {[1..len -> CompositeChildSet] : len \in 0..MaxChildren}}

ShouldExportAsCompositeImage ==
  /\ helper.op = "shouldExportAsCompositeImage" /\ ~helper.done
  /\ helper' = [op |-> "shouldExportAsCompositeImage", done |-> TRUE, node |-> helper.node,
                result |-> shouldExportAsCompositeImage(helper.node)]
  /\ UNCHANGED <<regVars, clsVars, fileVars, snapVars, pluginVars, lintVars>>

\* the calls of generateScannedCSS under study: pages of few font sizes and
\* of one more font size than the text scale has points; pages of few radii
\* on both sides of the pill threshold and of one more radius than the
\* radius scale has points below 'full'
ScannedCSSCalls ==
  {[op |-> "generateScannedCSS", done |-> FALSE, fontSizes |-> fontSizes, radii |-> radii] :
     fontSizes \in (SUBSET {12, 14, 16, 17}) \cup {10..(10 + Len(TW_TEXT_SCALE))},
     radii \in (SUBSET {2, 4, 7, 16, 500, 600}) \cup {1..Len(TW_RADIUS_SCALE)}}

GenerateScannedCSS ==
  /\ helper.op = "generateScannedCSS" /\ ~helper.done
  /\ \E css \in {generateScannedCSS(helper.fontSizes, helper.radii)} :
       helper' = [op |-> "generateScannedCSS", done |-> TRUE,
                  fontSizes |-> helper.fontSizes, radii |-> helper.radii,
                  text |-> css.text, radius |-> css.radius]
  /\ UNCHANGED <<regVars, clsVars, fileVars, snapVars, pluginVars, lintVars>>

MaxUsages == 2

\* the text nodes of a page under study: a style, and the styles that
\* differ from it in one field
TextUsages ==
  {[kind |-> "typography", fontSize |-> u[1], fontFamily |-> u[2], fontStyle |-> u[3],
    lineHeight |-> u[4]] :
     u \in { <<16, <<"I","n","t","e","r">>, <<"B","o","l","d">>, <<120>>>>, <<24, <<"I","n","t","e","r">>, <<"B","o","l","d">>, <<120>>>>,
             <<16, <<"R","o","b","o","t","o">>, <<"B","o","l","d">>, <<120>>>>, <<16, <<"I","n","t","e","r">>, <<"R","e","g","u","l","a","r">>, <<120>>>>,
             <<16, <<"I","n","t","e","r">>, <<"B","o","l","d">>, <<150>>>>, <<16, <<"I","n","t","e","r">>, <<"B","o","l","d">>, << >>>> }}

\* the shadow effects: a shadow, and the shadows that differ from it in one
\* field
ShadowUsages ==
  {[kind |-> "shadows", type |-> u[1], offsetX |-> u[2], offsetY |-> u[3], radius |-> u[4],
    spread |-> u[5], color |-> u[6]] :
     u \in { <<<<"D","R","O","P","_","S","H","A","D","O","W">>, 0, 4, 8, 0, <<"#","0","0","0","0","0","0","4","0">>>>,
             <<<<"I","N","N","E","R","_","S","H","A","D","O","W">>, 0, 4, 8, 0, <<"#","0","0","0","0","0","0","4","0">>>>,
             <<<<"D","R","O","P","_","S","H","A","D","O","W">>, 2, 4, 8, 0, <<"#","0","0","0","0","0","0","4","0">>>>,
             <<<<"D","R","O","P","_","S","H","A","D","O","W">>, 0, -4, 8, 0, <<"#","0","0","0","0","0","0","4","0">>>>,
             <<<<"D","R","O","P","_","S","H","A","D","O","W">>, 0, 4, 2, 0, <<"#","0","0","0","0","0","0","4","0">>>>,
             <<<<"D","R","O","P","_","S","H","A","D","O","W">>, 0, 4, 8, 1, <<"#","0","0","0","0","0","0","4","0">>>>,
             <<<<"D","R","O","P","_","S","H","A","D","O","W">>, 0, 4, 8, 0, <<"#","3","b","8","2","f","6","f","f">>>> }}

Stops(a, b) ==
  <<[color |-> a, position |-> 0], [color |-> b, position |-> 100]>>

\* the gradient fills: a linear and a radial gradient, and the gradients
\* that differ from them in the angle, the ellipse, the centre or the stops
GradientUsages ==
  {[kind |-> "gradients", type |-> u[1], angle |-> u[2], stops |-> u[3],
    ellipseX |-> u[4], ellipseY |-> u[5], centerX |-> u[6], centerY |-> u[7]] :
     u \in { <<<<"G","R","A","D","I","E","N","T","_","L","I","N","E","A","R">>, 90, Stops(<<"#","f","f","0","0","0","0","f","f">>, <<"#","0","0","0","0","f","f","f","f">>), << >>, << >>, << >>, << >>>>,
             <<<<"G","R","A","D","I","E","N","T","_","L","I","N","E","A","R">>, 180, Stops(<<"#","f","f","0","0","0","0","f","f">>, <<"#","0","0","0","0","f","f","f","f">>), << >>, << >>, << >>, << >>>>,
             <<<<"G","R","A","D","I","E","N","T","_","L","I","N","E","A","R">>, 90, Stops(<<"#","0","0","0","0","f","f","f","f">>, <<"#","f","f","0","0","0","0","f","f">>), << >>, << >>, << >>, << >>>>,
             <<<<"G","R","A","D","I","E","N","T","_","R","A","D","I","A","L">>, 0, Stops(<<"#","f","f","0","0","0","0","f","f">>, <<"#","0","0","0","0","f","f","f","f">>), <<50>>, <<50>>, <<50>>, <<50>>>>,
             <<<<"G","R","A","D","I","E","N","T","_","R","A","D","I","A","L">>, 0, Stops(<<"#","f","f","0","0","0","0","f","f">>, <<"#","0","0","0","0","f","f","f","f">>), <<50>>, <<25>>, <<50>>, <<50>>>>,
             <<<<"G","R","A","D","I","E","N","T","_","R","A","D","I","A","L">>, 0, Stops(<<"#","f","f","0","0","0","0","f","f">>, <<"#","0","0","0","0","f","f","f","f">>), <<50>>, <<50>>, <<30>>, <<50>>>>,
             <<<<"G","R","A","D","I","E","N","T","_","R","A","D","I","A","L">>, 0, Stops(<<"#","0","0","0","0","f","f","f","f">>, <<"#","f","f","0","0","0","0","f","f">>), <<50>>, <<50>>, <<50>>, <<50>>>> }}

\* the calls of scanNodesForTokens under study: pages of up to MaxUsages
\* nodes, each with one text style, shadow or gradient
ScanCalls ==
  {[op |-> "scanNodesForTokens", done |-> FALSE, allNodes |-> allNodes] :
     allNodes \in UNION {[1..len -> TextUsages \cup ShadowUsages \cup GradientUsages] :
                           len \in 0..MaxUsages}}

ScanNodesForTokens ==
  /\ helper.op = "scanNodesForTokens" /\ ~helper.done
  /\ \E tokens \in {scanNodesForTokens(helper.allNodes)} :
       helper' = [op |-> "scanNodesForTokens", done |-> TRUE, allNodes |-> helper.allNodes,
                  typography |-> tokens.typography, shadows |-> tokens.shadows,
                  gradients |-> tokens.gradients]
  /\ UNCHANGED <<regVars, clsVars, fileVars, snapVars, pluginVars, lintVars>>

\* the names under study: one that no rule matches and five that two rules
\* match each
SemanticNames ==
  { <<"C","a","r","d">>, <<"N","a","v"," ","b","u","t","t","o","n">>, <<"M","a","i","n"," ","m","e","n","u">>,
    <<"C","h","e","c","k"," ","r","a","d","i","o">>, <<"D","i","v","i","d","e","r"," ","l","i","n","k">>,
    <<"I","n","p","u","t"," ","l","a","b","e","l">> }

\* the children a node under study can hold: a text, two shapes, a box and
\* a hidden box
SemanticChildSet ==
  { [Node("TEXT", <<"t">>, 1, << >>, <<0, 0, 40, 20>>, TRUE) EXCEPT !.fontSize = 14],
    Node("VECTOR", <<"v">>, 1, << >>, <<0, 0, 20, 20>>, TRUE),
    Node("LINE", <<"l">>, 1, << >>, <<0, 0, 20, 0>>, TRUE),
    Node("RECTANGLE", <<"r">>, 1, << >>, <<0, 0, 20, 20>>, TRUE),
    Node("RECTANGLE", <<"r">>, 1, << >>, <<0, 0, 20, 20>>, FALSE) }

\* the containers under study: frames and instances with and without
\* auto-layout and groups
SemanticKinds ==
  { <<"FRAME", "NONE">>, <<"FRAME", "HORIZONTAL">>, <<"INSTANCE", "VERTICAL">>,
    <<"GROUP", "NONE">> }

Container(kind, name, children, box, fill) ==
  [Node(kind[1], name, 0, children, box, TRUE) EXCEPT !.layoutMode = kind[2], !.fill = fill]

\* the calls of detectSemanticElement under study: texts of every name at
\* font sizes around the four thresholds and of mixed size; containers of
\* every name with one text, three texts or no child; boxes of every name,
\* thin and not; and unnamed containers on both sides of the button sizes,
\* with and without fill, of up to MaxChildren children; each at the root
\* and below it
DetectCalls ==
  {[op |-> "detectSemanticElement", done |-> FALSE, node |-> node, isTopLevel |-> top] :
     node \in
       {[Node("TEXT", name, 0, << >>, <<0, 0, 100, 20>>, TRUE) EXCEPT !.fontSize = size] :
          name \in SemanticNames, size \in {0, 17, 18, 19, 20, 23, 24, 31, 32}}
       \cup
       {Container(kind, name, children, <<0, 0, 120, 40>>, <<255, 255, 255>>) :
          kind \in SemanticKinds, name \in SemanticNames,
          children \in {[i \in 1..len |-> CHOOSE c \in SemanticChildSet : c.type = "TEXT"] :
                          len \in {0, 1, 3}}}
       \cup
       {Node("RECTANGLE", name, 0, << >>, box, TRUE) :
          name \in SemanticNames,
          box \in {<<0, 0, 31, 2>>, <<0, 0, 30, 2>>, <<0, 0, 31, 3>>, <<0, 0, 2, 31>>}}
       \cup
       {Container(kind, <<"C","a","r","d">>, children, box, fill) :
          kind \in SemanticKinds,
          box \in {<<0, 0, 299, 60>>, <<0, 0, 300, 60>>, <<0, 0, 299, 61>>},
          fill \in {<< >>, <<255, 255, 255>>},
          children \in UNION {[1..len -> SemanticChildSet] : len \in 0..MaxChildren}},
     top \in BOOLEAN}

DetectSemanticElement ==
  /\ helper.op = "detectSemanticElement" /\ ~helper.done
  /\ helper' = [op |-> "detectSemanticElement", done |-> TRUE, node |-> helper.node,
                isTopLevel |-> helper.isTopLevel,
                result |-> detectSemanticElement(helper.node, helper.isTopLevel)]
  /\ UNCHANGED <<regVars, clsVars, fileVars, snapVars, pluginVars, lintVars>>

HelperNext ==
  \/ DetectSemanticElement
  \/ ScanNodesForTokens
  \/ GenerateScannedCSS
  \/ FindGCD
  \/ SnapRadius
  \/ SnapText
  \/ InferLayout
  \/ ShouldExportAsCompositeImage

HelperCalls ==
  GcdCalls \cup SnapRadiusCalls \cup SnapTextCalls \cup InferLayoutCalls \cup CompositeCalls
    \cup ScannedCSSCalls \cup ScanCalls \cup DetectCalls

(***************************************************************************)
(* Extraction and lint requests                                            *)
(***************************************************************************)
MaxEdits == 2
MaxRequests == 2

\* the local styles extractVariables asks for, in the order of its awaits:
\* getLocalPaintStylesAsync, getLocalTextStylesAsync, getLocalEffectStylesAsync
StyleAwaits == <<"paint", "text", "effect">>

\* the page on load: its first content, no variables and no styles
FirstPage == [version |-> 0, variables |-> FALSE, styles |-> {}]

\* scanNodesForTokens(): the tokens of the page as it is now; scan is
\* history, the place in the log of the step that made the scan
ScanPage(p, log) == [version |-> p.version, scan |-> Len(log) + 1]

\* extractVariables() called: it has run up to its first await, of
\* getLocalVariableCollectionsAsync.  request is history: the place in the
\* log of the extract message that made the call, 0 for the call on load
ExtractCalled(request) ==
  [at |-> "collections", collections |-> FALSE, totalVars |-> FALSE, totalStyles |-> FALSE,
   request |-> request]

\* the extract and run-lint messages in the log
Requested == {k \in 1..Len(requests) : requests[k].type # "extracted"}

\* the user edits the page, and defines or removes variables and styles
EditPage ==
  /\ page.version < MaxEdits
  /\ \E variables \in BOOLEAN, styles \in SUBSET Range(StyleAwaits) :
       page' = [version |-> page.version + 1, variables |-> variables, styles |-> styles]
  /\ UNCHANGED <<cachedSource, cachedScannedTokens, extracts, requests>>
  /\ UNCHANGED <<regVars, clsVars, fileVars, snapVars, pluginVars, helperVars>>

\* msg.type === 'extract': extractVariables() is called and suspends
ExtractRequest ==
  /\ Cardinality(Requested) < MaxRequests
  /\ extracts' = Append(extracts, ExtractCalled(Len(requests) + 1))
  /\ requests' = Append(requests, [type |-> "extract", source |-> "", tokens |-> << >>,
                                   request |-> Len(requests) + 1])
  /\ UNCHANGED <<page, cachedSource, cachedScannedTokens>>
  /\ UNCHANGED <<regVars, clsVars, fileVars, snapVars, pluginVars, helperVars>>

\* the collections arrive: a call goes on to await getLocalVariablesAsync
ExtractGotCollections ==
  /\ \E i \in 1..Len(extracts) :
       /\ extracts[i].at = "collections"
       /\ extracts' = [extracts EXCEPT ![i].at = "variables",
                                       ![i].collections = page.variables]
  /\ UNCHANGED <<page, cachedSource, cachedScannedTokens, requests>>
  /\ UNCHANGED <<regVars, clsVars, fileVars, snapVars, pluginVars, helperVars>>

\* the variables arrive: those of the collections read before are kept, and
\* the call goes on to await the local paint styles
ExtractGotVariables ==
  /\ \E i \in 1..Len(extracts) :
       /\ extracts[i].at = "variables"
       /\ extracts' = [extracts EXCEPT ![i].at = StyleAwaits[1],
                                       ![i].totalVars = extracts[i].collections
                                                        /\ page.variables]
  /\ UNCHANGED <<page, cachedSource, cachedScannedTokens, requests>>
  /\ UNCHANGED <<regVars, clsVars, fileVars, snapVars, pluginVars, helperVars>>

\* the paint styles or the text styles arrive: the call goes on to await
\* the styles of the next kind
ExtractGotStyleList ==
  /\ \E i \in 1..Len(extracts), k \in 1..(Len(StyleAwaits) - 1) :
       /\ extracts[i].at = StyleAwaits[k]
       /\ extracts' = [extracts EXCEPT ![i].at = StyleAwaits[k + 1],
                                       ![i].totalStyles = extracts[i].totalStyles
                                                          \/ StyleAwaits[k] \in page.styles]
  /\ UNCHANGED <<page, cachedSource, cachedScannedTokens, requests>>
  /\ UNCHANGED <<regVars, clsVars, fileVars, snapVars, pluginVars, helperVars>>

\* the effect styles arrive and the call runs to its end: without variables
\* and styles the page is scanned as it is now and the tokens are cached;
\* with them only cachedSource is set
ExtractGotStyles ==
  /\ \E i \in 1..Len(extracts) :
       /\ extracts[i].at = StyleAwaits[Len(StyleAwaits)]
       /\ extracts' = SubSeq(extracts, 1, i - 1) \o SubSeq(extracts, i + 1, Len(extracts))
       /\ IF /\ ~extracts[i].totalVars
             /\ ~extracts[i].totalStyles
             /\ StyleAwaits[Len(StyleAwaits)] \notin page.styles
          THEN /\ cachedScannedTokens' = <<ScanPage(page, requests)>>
               /\ cachedSource' = "scan"
               /\ requests' = Append(requests, [type |-> "extracted", source |-> "scan",
                                                tokens |-> <<ScanPage(page, requests)>>,
                                                request |-> extracts[i].request])
          ELSE /\ cachedSource' = "variables"
               /\ requests' = Append(requests, [type |-> "extracted",
                                                source |-> "variables", tokens |-> << >>,
                                                request |-> extracts[i].request])
               /\ UNCHANGED cachedScannedTokens
  /\ UNCHANGED page
  /\ UNCHANGED <<regVars, clsVars, fileVars, snapVars, pluginVars, helperVars>>

\* run-lint: the cached tokens when there are any, a fresh scan otherwise
RunLint ==
  /\ Cardinality(Requested) < MaxRequests
  /\ \E tokens \in {IF cachedScannedTokens # << >> THEN cachedScannedTokens[1]
                      ELSE ScanPage(page, requests)} :
       /\ cachedScannedTokens' = <<tokens>>
       /\ requests' = Append(requests, [type |-> "run-lint", source |-> cachedSource,
                                        tokens |-> <<tokens>>,
                                        request |-> Len(requests) + 1])
  /\ UNCHANGED <<page, cachedSource, extracts>>
  /\ UNCHANGED <<regVars, clsVars, fileVars, snapVars, pluginVars, helperVars>>

LintNext ==
  \/ EditPage
  \/ ExtractRequest
  \/ ExtractGotCollections
  \/ ExtractGotVariables
  \/ ExtractGotStyleList
  \/ ExtractGotStyles
  \/ RunLint

(***************************************************************************)
(* Specifications                                                          *)
(***************************************************************************)
\* the state of the UI script after it has loaded
UiLoaded == [generateLayerBtnDisabled |-> FALSE, hasSelection |-> FALSE,
             currentLayerHTML |-> << >>, currentLayerCSS |-> << >>,
             currentAssets |-> << >>]

\* register* calls on one fresh registry
InitRegistry ==
  /\ registry = createTokenRegistry /\ regLast = NoCall
  /\ regFirst = << >> /\ regCalls = 0
  /\ population = << >> /\ classified = NotClassified
  /\ usedNames = {} /\ fileReturned = << >>
  /\ snapUsed = {} /\ snapLast = NoSnap
  /\ selection = << >> /\ exportFails = {} /\ assetCounter = 0
  /\ runs = << >> /\ runLog = << >> /\ toPlugin = << >> /\ toUI = << >>
  /\ ui = UiLoaded /\ delivered = << >> /\ clicks = 0
  /\ helper = NoHelperCall
  /\ page = FirstPage /\ cachedSource = "variables" /\ cachedScannedTokens = << >>
  /\ extracts = <<ExtractCalled(0)>> /\ requests = << >>

SpecRegistry == InitRegistry /\ [][RegNext]_vars

\* one classification of each population
InitClassify ==
  /\ registry = createTokenRegistry /\ regLast = NoCall
  /\ regFirst = << >> /\ regCalls = 0
  /\ population \in Populations /\ classified = NotClassified
  /\ usedNames = {} /\ fileReturned = << >>
  /\ snapUsed = {} /\ snapLast = NoSnap
  /\ selection = << >> /\ exportFails = {} /\ assetCounter = 0
  /\ runs = << >> /\ runLog = << >> /\ toPlugin = << >> /\ toUI = << >>
  /\ ui = UiLoaded /\ delivered = << >> /\ clicks = 0
  /\ helper = NoHelperCall
  /\ page = FirstPage /\ cachedSource = "variables" /\ cachedScannedTokens = << >>
  /\ extracts = <<ExtractCalled(0)>> /\ requests = << >>

SpecClassify == InitClassify /\ [][ClsNext]_vars

\* toAssetFileName calls on one fresh used-names set
InitFileName ==
  /\ registry = createTokenRegistry /\ regLast = NoCall
  /\ regFirst = << >> /\ regCalls = 0
  /\ population = << >> /\ classified = NotClassified
  /\ usedNames = {} /\ fileReturned = << >>
  /\ snapUsed = {} /\ snapLast = NoSnap
  /\ selection = << >> /\ exportFails = {} /\ assetCounter = 0
  /\ runs = << >> /\ runLog = << >> /\ toPlugin = << >> /\ toUI = << >>
  /\ ui = UiLoaded /\ delivered = << >> /\ clicks = 0
  /\ helper = NoHelperCall
  /\ page = FirstPage /\ cachedSource = "variables" /\ cachedScannedTokens = << >>
  /\ extracts = <<ExtractCalled(0)>> /\ requests = << >>

SpecFileName == InitFileName /\ [][FileNext]_vars

\* snapFontSizeToTailwind calls on one fresh used-names set
InitSnap ==
  /\ registry = createTokenRegistry /\ regLast = NoCall
  /\ regFirst = << >> /\ regCalls = 0
  /\ population = << >> /\ classified = NotClassified
  /\ usedNames = {} /\ fileReturned = << >>
  /\ snapUsed = {} /\ snapLast = NoSnap
  /\ selection = << >> /\ exportFails = {} /\ assetCounter = 0
  /\ runs = << >> /\ runLog = << >> /\ toPlugin = << >> /\ toUI = << >>
  /\ ui = UiLoaded /\ delivered = << >> /\ clicks = 0
  /\ helper = NoHelperCall
  /\ page = FirstPage /\ cachedSource = "variables" /\ cachedScannedTokens = << >>
  /\ extracts = <<ExtractCalled(0)>> /\ requests = << >>

SpecSnap == InitSnap /\ [][SnapNext]_vars

\* the sets of rejecting exports under study: none, each single one, both
\* formats of the composite, all
ExportOutcomes ==
  {S \in SUBSET ExportCalls :
     Cardinality(S) <= 1 \/ S = {<<4, "SVG">>, <<4, "PNG">>} \/ S = ExportCalls}

\* the plugin and its UI on one document, under each set of rejecting exports
Init ==
  /\ registry = createTokenRegistry /\ regLast = NoCall
  /\ regFirst = << >> /\ regCalls = 0
  /\ population = << >> /\ classified = NotClassified
  /\ usedNames = {} /\ fileReturned = << >>
  /\ snapUsed = {} /\ snapLast = NoSnap
  /\ selection \in Selections /\ exportFails \in ExportOutcomes /\ assetCounter = 0
  /\ runs = << >> /\ runLog = << >> /\ toPlugin = << >> /\ toUI = << >>
  /\ ui = UiLoaded /\ delivered = << >> /\ clicks = 0
  /\ helper = NoHelperCall
  /\ page = FirstPage /\ cachedSource = "variables" /\ cachedScannedTokens = << >>
  /\ extracts = <<ExtractCalled(0)>> /\ requests = << >>

Spec == Init /\ [][Next]_vars

\* calls of the helper functions, each on arguments of its own
InitHelpers ==
  /\ registry = createTokenRegistry /\ regLast = NoCall
  /\ regFirst = << >> /\ regCalls = 0
  /\ population = << >> /\ classified = NotClassified
  /\ usedNames = {} /\ fileReturned = << >>
  /\ snapUsed = {} /\ snapLast = NoSnap
  /\ selection = << >> /\ exportFails = {} /\ assetCounter = 0
  /\ runs = << >> /\ runLog = << >> /\ toPlugin = << >> /\ toUI = << >>
  /\ ui = UiLoaded /\ delivered = << >> /\ clicks = 0
  /\ helper \in HelperCalls
  /\ page = FirstPage /\ cachedSource = "variables" /\ cachedScannedTokens = << >>
  /\ extracts = <<ExtractCalled(0)>> /\ requests = << >>

SpecHelpers == InitHelpers /\ [][HelperNext]_vars

\* extract and run-lint requests on a page the user edits; the plugin has
\* called extractVariables() on load
InitLint ==
  /\ registry = createTokenRegistry /\ regLast = NoCall
  /\ regFirst = << >> /\ regCalls = 0
  /\ population = << >> /\ classified = NotClassified
  /\ usedNames = {} /\ fileReturned = << >>
  /\ snapUsed = {} /\ snapLast = NoSnap
  /\ selection = << >> /\ exportFails = {} /\ assetCounter = 0
  /\ runs = << >> /\ runLog = << >> /\ toPlugin = << >> /\ toUI = << >>
  /\ ui = UiLoaded /\ delivered = << >> /\ clicks = 0
  /\ helper = NoHelperCall
  /\ page = FirstPage /\ cachedSource = "variables" /\ cachedScannedTokens = << >>
  /\ extracts = <<ExtractCalled(0)>> /\ requests = << >>

SpecLint == InitLint /\ [][LintNext]_vars

(***************************************************************************)
(* Claims on the colour classifier                                         *)
(***************************************************************************)
\* number of entries of the list that carry the hex
Occurrences(list, hex) == Cardinality({i \in 1..Len(list) : list[i].hex = hex})

\* C3: every input hex appears exactly once in the semantic list and the
\* palette list taken together, and no other hex appears.
C3_ExactlyOnce ==
  classified.done =>
    LET out == classified.semantic \o classified.palette
    IN  /\ \A i \in 1..Len(population) : Occurrences(out, population[i].hex) = 1
        /\ \A i \in 1..Len(out) : Occurrences(population, out[i].hex) = 1

(***************************************************************************)
(* Claims on asset file names and scale snapping                           *)
(***************************************************************************)
\* C9: within one run toAssetFileName never returns a file name it has
\* already returned: the returned names are pairwise distinct.
C9_FileNamesDistinct ==
  \A i, j \in 1..Len(fileReturned) : fileReturned[i] = fileReturned[j] => i = j

\* three names of one base and extension were asked for, and a name that
\* already ends in -2 met the suffix given to an earlier one
C9_Witness ==
  /\ {<<"a",".","p","n","g">>, <<"a","-","2",".","p","n","g">>,
      <<"a","-","3",".","p","n","g">>, <<"a","-","2","-","2",".","p","n","g">>}
       \subseteq Range(fileReturned)

TextScaleNames == {TW_TEXT_SCALE[i].name : i \in 1..Len(TW_TEXT_SCALE)}

\* C10: snapFontSizeToTailwind never returns a name that was in the used set
\* before the call, unless every name of the text scale was already in it.
C10_SnapUnusedName ==
  snapLast.called =>
    \/ snapLast.name \notin snapLast.before
    \/ TextScaleNames \subseteq snapLast.before

\* a snap whose nearest scale point was taken by an earlier snap, with free
\* names left
C10_Witness ==
  /\ snapLast.called
  /\ snapLast.rem = 17000
  /\ <<"b","a","s","e">> \in snapLast.before
  /\ ~(TextScaleNames \subseteq snapLast.before)
(***************************************************************************)
(* Claims on layer compilation                                             *)
(***************************************************************************)
\* the id requests of every generate-layer handler, returned or suspended
IdsTaken ==
  {runLog[i].ids : i \in 1..Len(runLog)} \cup {runs[i].ids : i \in 1..Len(runs)}

\* the handlers that went through their try block and returned
Compiled == {i \in 1..Len(runLog) : runLog[i].error = ""}

\* C4: at most one compile is in flight: no generate-layer handler starts or
\* waits to start while another is suspended at an export await, so the
\* module-level counter is exactly what the suspended handler made it, and no
\* handler hands out an id twice or overwrites an entry of its asset map.
C4_OneCompileInFlight ==
  /\ Len(toPlugin) + Len(runs) <= 1
  /\ \A i \in 1..Len(runs) : assetCounter = Len(runs[i].ids) /\ ~runs[i].overwrote
  /\ \A i \in 1..Len(runLog) : ~runLog[i].overwrote
  /\ \A ids \in IdsTaken : \A j, k \in 1..Len(ids) : ids[j].id = ids[k].id => j = k

\* the handler of the second click is suspended at its third export, after
\* the first handler has returned with assets
C4_Witness ==
  /\ clicks = 2 /\ ui.generateLayerBtnDisabled
  /\ Len(runLog) = 1 /\ Len(runLog[1].ids) >= 3
  /\ Len(runs) = 1 /\ Len(runs[1].ids) = 3

\* C5: in every run the k-th id handed out is asset-k, whatever an earlier
\* run handed out, and the nodes that ask for ids do so in depth-first
\* document order.
C5_IdsInDocumentOrder ==
  \A i \in 1..Len(runLog) :
    /\ \A k \in 1..Len(runLog[i].ids) :
         runLog[i].ids[k].id = <<"a","s","s","e","t","-">> \o NumToStr(k)
    /\ \A k \in 1..(Len(runLog[i].ids) - 1) :
         DocPosition(runLog[i].root, runLog[i].ids[k].node)
           <= DocPosition(runLog[i].root, runLog[i].ids[k + 1].node)

\* a second run has returned after a first one that handed out seven ids,
\* and it handed out seven ids itself
C5_Witness ==
  /\ Len(runLog) = 2
  /\ Len(runLog[1].ids) = 7 /\ Len(runLog[2].ids) = 7
  /\ runLog[2].ids[1].id = <<"a","s","s","e","t","-","1">>

\* C6: two runs on the same tree with the same flags and the same export
\* outcomes produce the same markup, theme CSS, asset ids and file names.
C6_RunsRepeat ==
  \A i, j \in Compiled :
    (runLog[i].root = runLog[j].root /\ runLog[i].generateCSS = runLog[j].generateCSS
       /\ runLog[i].jsxMode = runLog[j].jsxMode)
    => /\ runLog[i].html = runLog[j].html
       /\ runLog[i].css = runLog[j].css
       /\ runLog[i].ids = runLog[j].ids
       /\ runLog[i].assets = runLog[j].assets

\* two runs with theme CSS and JSX have returned, each with assets and with
\* an export that was rejected
C6_Witness ==
  /\ Len(runLog) = 2 /\ Compiled = {1, 2}
  /\ runLog[1].generateCSS /\ runLog[2].generateCSS
  /\ runLog[1].jsxMode /\ runLog[2].jsxMode
  /\ Len(runLog[2].assets) >= 3 /\ runLog[2].rejected # << >>
  /\ runLog[2].css # << >>

\* the lines of a returned run that stand for the node
LinesOf(entry, n) == {k \in 1..Len(entry.html) : entry.html[k].node = n}

\* the visible siblings that follow the node under its parent
LaterSiblings(n) ==
  IF Document[n].parent = 0 THEN {}
  ELSE {Document[Document[n].parent].children[k] :
          k \in {k \in 1..Len(Document[Document[n].parent].children) :
                   /\ Document[Document[Document[n].parent].children[k]].visible
                   /\ \E j \in 1..(k - 1) : Document[Document[n].parent].children[j] = n}}

\* C7: whatever exports are rejected the run returns without error, every
\* node whose export was rejected is rendered as a placeholder image or an
\* inline comment, and the visible siblings that follow it are compiled.
C7_RejectedNodeLeavesTrace ==
  \A i \in 1..Len(runLog) :
    runLog[i].root # 0 =>
      /\ runLog[i].error = ""
      /\ \A r \in Range(runLog[i].rejected) :
           /\ \E k \in LinesOf(runLog[i], r.node) :
                \/ runLog[i].html[k].kind \in {"comment", "jsxcomment"}
                \/ /\ runLog[i].html[k].kind = "img"
                   /\ runLog[i].html[k].src = PLACEHOLDER_SVG
           /\ \A s \in LaterSiblings(r.node) : LinesOf(runLog[i], s) # {}

\* the text is {{asset:<id>}} with an id of word characters and dashes, as
\* the UI's resolveAssetPlaceholders recognises it
AssetIdChars ==
  Range(LowerChars) \cup Range(UpperChars) \cup Range(DigitChars) \cup {"_", "-"}

IsAssetRef(text) ==
  /\ Len(text) > 10
  /\ SubSeq(text, 1, 8) = <<"{","{","a","s","s","e","t",":">>
  /\ SubSeq(text, Len(text) - 1, Len(text)) = <<"}","}">>
  /\ \A k \in 9..(Len(text) - 2) : text[k] \in AssetIdChars

RefId(text) == SubSeq(text, 9, Len(text) - 2)

\* the asset references of a markup: the image sources other than the static
\* placeholder file and the background images
RefsOf(html) ==
  {html[k].src : k \in {k \in 1..Len(html) :
                          html[k].src # << >> /\ html[k].src # PLACEHOLDER_SVG}}
  \cup {html[k].bg : k \in {k \in 1..Len(html) : html[k].bg # << >>}}

\* C8: every asset reference of a delivered markup has the form
\* {{asset:<id>}} with <id> a key of the asset map delivered with it, and no
\* reference names an id whose export was rejected.
C8_RefsResolve ==
  /\ \A i \in 1..Len(delivered) :
       \A ref \in RefsOf(delivered[i].html) :
         /\ IsAssetRef(ref)
         /\ RefId(ref) \in Range(MapKeys(delivered[i].assets))
  /\ \A i \in 1..Len(runLog) :
       \A ref \in RefsOf(runLog[i].html) :
         \A r \in Range(runLog[i].rejected) : RefId(ref) # r.id

\* the UI has received a markup with an image and a background reference
\* from a run in which the export of a vector was rejected
C8_Witness ==
  /\ Len(delivered) = 1 /\ Len(runLog) = 1
  /\ \E r \in Range(runLog[1].rejected) : Document[r.node].type = "VECTOR"
  /\ \E k \in 1..Len(delivered[1].html) :
       delivered[1].html[k].bg # << >> /\ IsAssetRef(delivered[1].html[k].bg)
  /\ \E k \in 1..Len(delivered[1].html) :
       delivered[1].html[k].kind = "img" /\ IsAssetRef(delivered[1].html[k].src)

(***************************************************************************)
(* Claims on helper functions                                              *)
(***************************************************************************)
\* x is an integer multiple of d
Multiple(x, d) == \E k \in (0 - Abs(x))..Abs(x) : x = k * d

\* C11: for every non-empty list of integers findGCD returns a value of which
\* every element of the list is an integer multiple.
C11_GcdDividesAll ==
  (helper.op = "findGCD" /\ helper.done) =>
    \A i \in 1..Len(helper.numbers) : Multiple(helper.numbers[i], helper.result)

\* three numbers whose common divisor is none of them and not 1
C11_Witness ==
  /\ helper.op = "findGCD" /\ helper.done
  /\ helper.numbers = <<12, 9, 6>>
  /\ helper.result = 3

\* C12: snapRadiusToTailwind returns 'full' for every px at or above the pill
\* threshold of 500, whatever names are used, and never for a px below it.
C12_PillSnapsToFull ==
  (helper.op = "snapRadiusToTailwind" /\ helper.done) =>
    (helper.name = <<"f","u","l","l">>) = (helper.px >= 500)

\* 9999 snapped when 'full' was already used
C12_Witness ==
  /\ helper.op = "snapRadiusToTailwind" /\ helper.done
  /\ helper.px = 9999
  /\ <<"f","u","l","l">> \in helper.usedNames
  /\ helper.name = <<"f","u","l","l">>

\* the name is that of the unused point of the scale closest to the value,
\* the lowest index on equal distance, or of the first entry when none is
\* unused; names and values are those of the points that take part
ClosestUnused(names, values, take, value, used, name) ==
  IF \A i \in take : names[i] \in used THEN name = names[1]
  ELSE \E i \in take :
         /\ names[i] \notin used /\ name = names[i]
         /\ \A j \in take :
              names[j] \notin used =>
                \/ Abs(values[j] - value) > Abs(values[i] - value)
                \/ Abs(values[j] - value) = Abs(values[i] - value) /\ i <= j

\* C20: snapFontSizeToTailwind returns the unused scale point closest to rem,
\* the lowest index on equal distance, the first entry when every name is
\* used, and adds the name to the used set; snapRadiusToTailwind does the
\* same over the points other than 'full' for px below the pill threshold.
C20_SnapsToClosestUnused ==
  /\ (helper.op = "snapFontSizeToTailwind" /\ helper.done) =>
       /\ ClosestUnused([i \in 1..Len(TW_TEXT_SCALE) |-> TW_TEXT_SCALE[i].name],
                        [i \in 1..Len(TW_TEXT_SCALE) |-> TW_TEXT_SCALE[i].rem],
                        1..Len(TW_TEXT_SCALE), helper.rem, helper.usedNames, helper.name)
       /\ helper.after = helper.usedNames \cup {helper.name}
  /\ (helper.op = "snapRadiusToTailwind" /\ helper.done /\ helper.px < 500) =>
       /\ ClosestUnused([i \in 1..Len(TW_RADIUS_SCALE) |-> TW_RADIUS_SCALE[i].name],
                        [i \in 1..Len(TW_RADIUS_SCALE) |-> TW_RADIUS_SCALE[i].px],
                        {i \in 1..Len(TW_RADIUS_SCALE) :
                           TW_RADIUS_SCALE[i].name # <<"f","u","l","l">>},
                        helper.px, helper.usedNames, helper.name)
       /\ helper.after = helper.usedNames \cup {helper.name}

\* a size half way between two unused points, with the point below them used
C20_Witness ==
  /\ helper.op = "snapFontSizeToTailwind" /\ helper.done
  /\ helper.rem = 17000
  /\ helper.usedNames = {<<"x","s">>}
  /\ helper.name = <<"b","a","s","e">>

\* the visible children of the node of a helper call
VisibleOf(node) == SelectSeq(node.children, LAMBDA c : c.visible)

\* C13: inferLayoutFromChildren returns 'col' whenever the frame has no or
\* one visible child, whatever the boxes of that child and of the hidden
\* children
C13_FewChildrenIsColumn ==
  (/\ helper.op = "inferLayoutFromChildren" /\ helper.done
   /\ Len(VisibleOf(helper.frame)) <= 1)
    => helper.result = "col"

\* C13 witness: a frame of one visible child and two hidden children that
\* overlap was given 'col'
C13_Witness ==
  /\ helper.op = "inferLayoutFromChildren" /\ helper.done
  /\ Len(VisibleOf(helper.frame)) = 1
  /\ Len(helper.frame.children) = 3
  /\ OverlapCount(helper.frame.children) >= 2
  /\ helper.result = "col"

\* a container is large when it is wider than 100 and has more than two
\* visible children
IsLarge(node) == node.width > 100 /\ Len(VisibleOf(node)) > 2

AllVectorLike(children) == \A i \in 1..Len(children) : isVectorLike(children[i])

\* C14: a container whose visible children are all vector-like is collapsed
\* into one image unless it is both large and an auto-layout frame
C14_AllVectorCollapsed ==
  (/\ helper.op = "shouldExportAsCompositeImage" /\ helper.done
   /\ VisibleOf(helper.node) # << >>
   /\ AllVectorLike(VisibleOf(helper.node)))
    => (helper.result = ~(IsLarge(helper.node) /\ helper.node.layoutMode # "NONE"))

\* C15: a container named after the icon keyword list whose visible
\* children are each vector-like or a vector-only container is collapsed
\* into one image, whatever its size and its number of children
C15_NamedIconCollapsed ==
  (/\ helper.op = "shouldExportAsCompositeImage" /\ helper.done
   /\ HasAnyWord(helper.node.name, COMPOSITE_NAME_WORDS)
   /\ VisibleOf(helper.node) # << >>
   /\ \A i \in 1..Len(VisibleOf(helper.node)) :
        \/ isVectorLike(VisibleOf(helper.node)[i])
        \/ isVectorContainer(VisibleOf(helper.node)[i]))
    => helper.result = TRUE

Distinct(names) == \A i, j \in 1..Len(names) : names[i] = names[j] => i = j

\* C16: in Tailwind-default mode generateScannedCSS declares pairwise
\* distinct --text-* names for distinct font sizes and pairwise distinct
\* --radius-* names for distinct radii
C16_DeclaredNamesDistinct ==
  (helper.op = "generateScannedCSS" /\ helper.done)
    => Distinct(helper.text) /\ Distinct(helper.radius)

\* the raw token of a usage: all the fields the scan reports for it
RawToken(node) ==
  IF node.kind = "typography" THEN TypographyEntry(node)
  ELSE IF node.kind = "shadows" THEN ShadowEntry(node)
  ELSE GradientEntry(node)

TimesReported(tokens, token) == Cardinality({i \in 1..Len(tokens) : tokens[i] = token})

\* C19: scanNodesForTokens returns every distinct raw token of the page
\* exactly once: usages are merged only when equal in all fields
C19_EveryTokenOnce ==
  (helper.op = "scanNodesForTokens" /\ helper.done)
    => \A i \in 1..Len(helper.allNodes) :
         TimesReported(helper[helper.allNodes[i].kind], RawToken(helper.allNodes[i])) = 1

\* C18: there is no retry: in one compile run exportAsync is called at most
\* once for any node, whether the call resolves or rejects
C18_OneExportPerNode ==
  /\ \A i \in 1..Len(runLog) :
       \A a, b \in 1..Len(runLog[i].calls) :
         runLog[i].calls[a][1] = runLog[i].calls[b][1] => a = b
  /\ \A i \in 1..Len(runs) :
       \A a, b \in 1..Len(runs[i].calls) :
         runs[i].calls[a][1] = runs[i].calls[b][1] => a = b

\* the places of a markup that refer to asset id
RefCount(html, id) ==
  Cardinality({k \in 1..Len(html) : html[k].src = Placeholder(id)})
    + Cardinality({k \in 1..Len(html) : html[k].bg = Placeholder(id)})

\* C17: every entry of the asset map delivered with a markup is referred to
\* by exactly one {{asset:<id>}} placeholder of that markup
C17_AssetsReferencedOnce ==
  \A i \in 1..Len(delivered) :
    \A id \in Range(MapKeys(delivered[i].assets)) :
      RefCount(delivered[i].html, id) = 1

(***************************************************************************)
(* Claims on colour names, layout inference and semantic detection         *)
(***************************************************************************)
\* C21: a colour found neither in the theme colours nor in the default
\* palette is named <family>-<step>, with step 500 for the first colour of
\* its hue family and 100 more for each member the family already has
C21_FamilyStepsRise ==
  (/\ regLast.op = "color"
   /\ ~MapHas(regLast.before.colors, regLast.key)
   /\ ~MapHas(TW_COLORS, regLast.key))
    => regLast.name =
         ColorFamily(regLast.key) \o <<"-">>
           \o NumToStr(500 + 100 * CountStartingWith(MapValues(regLast.before.colors),
                                                      ColorFamily(regLast.key)))

\* the boxes of a and b share a point that lies on no edge of either
InsideBoth(a, b) ==
  /\ a.x < b.x + b.width /\ b.x < a.x + a.width
  /\ a.y < b.y + b.height /\ b.y < a.y + a.height

\* the layout the claim gives n >= 2 visible children
LayoutByRule(children) ==
  LET n     == Len(children)
      pairs == {p \in (1..n) \X (1..n) : p[1] < p[2] /\ InsideBoth(children[p[1]], children[p[2]])}
      tops  == {children[i].y : i \in 1..n}
      range == (CHOOSE t \in tops : \A u \in tops : u <= t)
                 - (CHOOSE t \in tops : \A u \in tops : t <= u)
  IN  IF 10 * Cardinality(pairs) > 3 * n THEN "overlap"
      ELSE IF 2 * n * range < SumHeights(children) THEN "row"
      ELSE "col"

\* C22: for two or more visible children inferLayoutFromChildren returns
\* 'overlap' exactly when the pairs of boxes that intersect on both axes,
\* edges not counting, are more than 30% of the visible children, else 'row'
\* exactly when the spread of y is below half the average height, else 'col'
C22_LayoutByOverlapThenSpread ==
  (/\ helper.op = "inferLayoutFromChildren" /\ helper.done
   /\ Len(VisibleOf(helper.frame)) >= 2)
    => helper.result = LayoutByRule(VisibleOf(helper.frame))

\* C22 witness: three visible boxes in a line that touch at their edges
\* were given 'row'
C22_Witness ==
  /\ helper.op = "inferLayoutFromChildren" /\ helper.done
  /\ Len(VisibleOf(helper.frame)) = 3
  /\ OverlapCount_Closed(VisibleOf(helper.frame)) >= 1
  /\ OverlapCount(VisibleOf(helper.frame)) = 0
  /\ helper.result = "row"

\* a finished call of detectSemanticElement
Detected == helper.op = "detectSemanticElement" /\ helper.done

\* the rules whose pattern matches the name
MatchingRules(name) ==
  {k \in 1..Len(SEMANTIC_NAME_RULES) : RuleMatches(SEMANTIC_NAME_RULES[k], name)}

\* C24: for a node that is no text the first name rule in list order that
\* matches gives the whole result; the button, list and separator
\* heuristics decide only when no rule matches, and a node that neither a
\* rule nor a heuristic matches is a 'section' at the root and a 'div' below
C24_FirstRuleThenStructure ==
  (Detected /\ helper.node.type # "TEXT") =>
    LET rules == MatchingRules(helper.node.name)
        frame == helper.node.type \in {"FRAME", "COMPONENT", "INSTANCE"}
    IN  /\ \A k \in rules :
             (\A j \in rules : k <= j) => helper.result = SEMANTIC_NAME_RULES[k].result
        /\ (rules = {} /\ helper.result.tag \in {"button", "ul"}) => frame
        /\ (/\ rules = {}
            /\ ~(frame /\ ButtonLike(helper.node))
            /\ ~(frame /\ ListLike(helper.node))
            /\ ~SeparatorLike(helper.node))
             => helper.result =
                  Semantic(IF helper.isTopLevel THEN "section" ELSE "div", << >>, FALSE, "", "")

\* C24 witness: a filled frame of one text named 'Main menu', which the nav
\* rule and the later main rule both match, was given 'nav'
C24_Witness ==
  /\ Detected /\ helper.node.type = "FRAME"
  /\ Cardinality(MatchingRules(helper.node.name)) = 2
  /\ 6 \in MatchingRules(helper.node.name)
  /\ ButtonLike(helper.node)
  /\ helper.result.tag = "nav"

\* C25: a text node is given h1, h2, h3, h4 or p by its font size alone
\* (at least 32, 24, 20, 18, else p), never a tag, self-closing flag, extra
\* class or attribute of a name rule
C25_TextByFontSize ==
  (Detected /\ helper.node.type = "TEXT") =>
    /\ helper.result.extraClasses = << >> /\ ~helper.result.selfClosing
    /\ helper.result.attrs = "" /\ helper.result.wrapChildren = ""
    /\ helper.result.tag \in {"h1", "h2", "h3", "h4", "p"}
    /\ helper.node.fontSize # 0 =>
         /\ helper.result.tag = "h1" <=> helper.node.fontSize >= 32
         /\ helper.result.tag = "h2" <=> helper.node.fontSize \in 24..31
         /\ helper.result.tag = "h3" <=> helper.node.fontSize \in 20..23
         /\ helper.result.tag = "h4" <=> helper.node.fontSize \in 18..19

\* C25 witness: a text of size 24 named 'Divider link' was given 'h2'
C25_Witness ==
  /\ Detected /\ helper.node.type = "TEXT"
  /\ MatchingRules(helper.node.name) = {2, 10}
  /\ helper.node.fontSize = 24
  /\ helper.result.tag = "h2"

\* C26: a frame that no name rule matches is a button exactly when it is
\* less than 300 wide, at most 60 high, filled with a visible solid paint,
\* and has one or two visible children, a text among them, each a text or
\* vector-like
C26_ButtonHeuristic ==
  (/\ Detected /\ helper.node.type \in {"FRAME", "COMPONENT", "INSTANCE"}
   /\ MatchingRules(helper.node.name) = {})
    => LET children == VisibleOf(helper.node)
       IN  helper.result.tag = "button" <=>
             /\ helper.node.width < 300 /\ helper.node.height <= 60
             /\ Len(children) \in {1, 2}
             /\ \E i \in 1..Len(children) : children[i].type = "TEXT"
             /\ helper.node.fill # << >>
             /\ \A i \in 1..Len(children) :
                  children[i].type = "TEXT" \/ isVectorLike(children[i])

(***************************************************************************)
(* Claims on the markup of a compile run                                   *)
(***************************************************************************)
\* the frames of the document without auto-layout whose children overlap
OverlapFrames ==
  {p \in NodeIds : IsFrame(p) /\ Document[p].layoutMode = "NONE" /\ isOverlap(p)}

\* the lines a markup holds for node n as a child of its frame: its own
\* line when it is a text, the wrapper around it otherwise
ChildLines(html, n) ==
  {k \in 1..Len(html) : html[k].node = n /\ html[k].kind \in {"text", "wrapopen"}}

\* C23: in a frame without auto-layout whose children overlap every
\* visible child is rendered with the class 'absolute', a top- class and a
\* left- class, wherever the child lies
C23_OverlapChildrenPositioned ==
  \A i \in 1..Len(runLog) :
    \A p \in OverlapFrames :
      (\E k \in 1..Len(runLog[i].html) :
          runLog[i].html[k].node = p /\ runLog[i].html[k].kind = "open")
        => \A j \in 1..Len(Document[p].children) :
             LET child == Document[p].children[j]
             IN  Document[child].visible =>
                   \E k \in ChildLines(runLog[i].html, child) :
                     LET classes == Range(runLog[i].html[k].classes)
                     IN  /\ <<"a","b","s","o","l","u","t","e">> \in classes
                         /\ \E c \in classes : StartsWith(c, <<"t","o","p","-">>)
                         /\ \E c \in classes : StartsWith(c, <<"l","e","f","t","-">>)

\* C28: a node whose semantic classification is self-closing is emitted as
\* one self-closing tag: no markup holds an opening tag for it, and none
\* holds an opening input or hr tag
C28_SelfClosingNeverOpened ==
  \A i \in 1..Len(runLog) :
    \A k \in 1..Len(runLog[i].html) :
      LET line == runLog[i].html[k]
      IN  line.kind = "open" =>
            /\ ~detectSemanticElement(Subtree(line.node), line.node = runLog[i].root).selfClosing
            /\ line.tag \notin {"input", "hr"}

\* the nodes that are invisible or lie under an invisible node
RECURSIVE IsShown(_)
IsShown(n) == Document[n].visible /\ (Document[n].parent = 0 \/ IsShown(Document[n].parent))

HiddenNodes == {n \in NodeIds : ~IsShown(n)}

\* text holds part as a run of characters
Contains(text, part) ==
  \E k \in 1..(Len(text) - Len(part) + 1) : SubSeq(text, k, k + Len(part) - 1) = part

\* the file names of the assets of the ids before the j-th of a run
NamesBefore(run, j) ==
  {MapGet(run.assets, run.ids[k].id).fileName :
     k \in {k \in 1..(j - 1) : MapHas(run.assets, run.ids[k].id)}}

\* C27: an invisible node adds nothing to a compile run: no line of
\* markup, no export call, no asset id, no asset, no file name, no colour
\* or radius of the stylesheet; the ids of the run are consecutive and
\* every file name is the one toAssetFileName gives among the names of the
\* assets exported before it, as if the invisible nodes were not there
C27_InvisibleNodesAbsent ==
  \A i \in 1..Len(runLog) :
    LET run == runLog[i]
    IN  /\ \A k \in 1..Len(run.html) : run.html[k].node \notin HiddenNodes
        /\ \A k \in 1..Len(run.calls) : run.calls[k][1] \notin HiddenNodes
        /\ \A k \in 1..Len(run.rejected) : run.rejected[k].node \notin HiddenNodes
        /\ \A j \in 1..Len(run.ids) :
             /\ run.ids[j].node \notin HiddenNodes
             /\ run.ids[j].id = <<"a","s","s","e","t","-">> \o NumToStr(j)
             /\ MapHas(run.assets, run.ids[j].id) =>
                  LET fileName == MapGet(run.assets, run.ids[j].id).fileName
                      ext      == SubSeq(fileName, Len(fileName) - 2, Len(fileName))
                  IN  fileName = toAssetFileName(Document[run.ids[j].node].name, ext,
                                                 NamesBefore(run, j)).fileName
        /\ Len(run.assets) <= Len(run.ids)
        /\ \A k \in 1..Len(run.assets) : \E j \in 1..Len(run.ids) : run.ids[j].id = run.assets[k][1]
        /\ \A h \in HiddenNodes :
             /\ (/\ Document[h].fill # << >>
                 /\ \A n \in NodeIds \ HiddenNodes :
                      Document[n].fill # Document[h].fill)
                  => \A k \in 1..Len(run.css) :
                       ~Contains(run.css[k], FillHex[h])
             /\ (/\ Document[h].cornerRadius # 0
                 /\ \A n \in NodeIds \ HiddenNodes :
                      Document[n].cornerRadius # Document[h].cornerRadius)
                  => \A k \in 1..Len(run.css) :
                       ~Contains(run.css[k], <<" ">> \o NumToStr(Document[h].cornerRadius)
                                              \o <<"p","x",";">>)

\* C27 witness: a run with a stylesheet on the card, all of whose exports
\* were fulfilled, has rendered the stack that follows the hidden picture
\* and the hint text beside the hidden icon, and has named the file of the
\* visible cover picture cover.png
C27_Witness ==
  \E i \in 1..Len(runLog) :
    LET run == runLog[i]
    IN  /\ run.root = 1 /\ run.generateCSS /\ run.rejected = << >>
        /\ {8, 17} \subseteq HiddenNodes
        /\ \E k \in 1..Len(run.html) : run.html[k].node = 9
        /\ \E k \in 1..Len(run.html) : run.html[k].node = 16
        /\ Len(run.ids) = 7
        /\ \E j \in 1..Len(run.ids) :
             /\ run.ids[j].node = 13
             /\ MapGet(run.assets, run.ids[j].id).fileName
                  = <<"c","o","v","e","r",".","p","n","g">>
        /\ \E k \in 1..Len(run.css) : Contains(run.css[k], <<"#","1","0","4","0","c","0">>)

\* the utility classes a markup gives node n, on its own tag or on the
\* wrapper around it
ClassesGiven(html, n) ==
  UNION {Range(html[k].classes) : k \in {k \in 1..Len(html) : html[k].node = n}}

\* C30: two runs on the same tree without stylesheet, one in HTML and one
\* in JSX mode, hand out the same asset ids to the same nodes, render the
\* same nodes and give every node the same utility classes
C30_JsxWalksLikeHtml ==
  \A i, j \in 1..Len(runLog) :
    (/\ runLog[i].root # 0 /\ runLog[i].root = runLog[j].root
     /\ ~runLog[i].generateCSS /\ ~runLog[j].generateCSS
     /\ ~runLog[i].jsxMode /\ runLog[j].jsxMode)
      => /\ runLog[i].ids = runLog[j].ids
         /\ runLog[i].calls = runLog[j].calls
         /\ \A n \in NodeIds :
              ClassesGiven(runLog[i].html, n) = ClassesGiven(runLog[j].html, n)

(***************************************************************************)
(* Claims on lint requests                                                 *)
(***************************************************************************)
\* C29: the tokens a run-lint request lints were scanned no earlier than
\* every extract request before it whose extractVariables() call has run to
\* its end by then
C29_LintAfterLatestExtract ==
  \A k \in 1..Len(requests) :
    requests[k].type = "run-lint" =>
      \A e \in 1..(k - 1) :
        /\ requests[e].type = "extract"
        /\ \E d \in (e + 1)..(k - 1) :
             requests[d].type = "extracted" /\ requests[d].request = e
        => requests[k].tokens[1].scan >= e
====
